---- MODULE Spec2Model ----
(***************************************************************************)
(* The two sponsored-batch contracts of the repository, as one state       *)
(* machine per contract instance:                                          *)
(*   EIP7702Saver (call batches, self-executed or sponsored) and           *)
(*   PermitSaver  (permit + transferFrom pairs, single or batch).          *)
(* A behaviour is the life of ONE instance (Init chooses which contract).  *)
(* A submission is executed statement by statement; a revert restores the  *)
(* storage, balances and log of the instance to what they were when the    *)
(* submission started (the host's transaction semantics).                  *)
(***************************************************************************)
EXTENDS Integers, Sequences, FiniteSets, TLC

VARIABLES
    contract,      \* which contract this instance is ("none": the web client alone)
    nonce,         \* uint256 public nonce
    _status,       \* ReentrancyGuard's flag
    eth,           \* native balance of every account
    balanceOf,     \* token -> account -> balance
    allowance,     \* token -> allowance of Owner to the PermitSaver instance
    nonces,        \* token -> the token's own permit nonce of Owner
    pc,            \* position of the submission in flight ("idle" when none)
    msg,           \* the submission in flight: function, sender, value, arguments
    i,             \* loop index of the batch loop (0-based as in the source)
    currentNonce,  \* the local of that name: the counter value before the advance
    events,        \* the log of the submission in flight, in emission order
    result,        \* how the last submission ended: "Committed" or the error
    ret,           \* what the last call of a view function returned
    pre,           \* the instance's state when the submission started
    accepted,      \* history: a signed submission that committed, if one is remembered
    reentry,       \* the nested calls attempted during the external call in progress
    active,        \* number of batch frames executing on the instance
    isLoading,     \* web client: hook -> the hook's isLoading state
    ops            \* web client: the hook operations called and not yet forgotten

vars == <<contract, nonce, _status, eth, balanceOf, allowance, nonces, pc, msg, i,
          currentNonce, events, result, ret, pre, accepted, reentry, active, isLoading, ops>>

-----------------------------------------------------------------------------
(* Bounds of the model and constants of the program *)

MAX_BATCH_SIZE == 50

\* submissions are drawn while the counter is below MaxNonce
MaxNonce == 2

\* nested calls a callee may attempt during one external call
MaxReentry == 1

-----------------------------------------------------------------------------
(* Accounts *)

\* address(this) of the instance
This == IF contract = "EIP7702Saver" THEN "Acct" ELSE "PS"

\* accounts that are contracts with code of their own choosing
IsHostile(a) == a = "Evil"

EthHolders == {"Acct", "PS", "Sponsor", "Evil", "Rcpt"}

\* a fixed-width word for an address inside a packed encoding
AddrWord(a) ==
    CASE a = "Zero" -> 0 [] a = "Acct" -> 1 [] a = "PS" -> 2 [] a = "Sponsor" -> 3
      [] a = "Evil" -> 4 [] a = "Rcpt" -> 5 [] a = "Owner" -> 6 [] a = "Owner2" -> 7
      [] a = "TokA" -> 8 [] a = "TokB" -> 9 [] a = "TokEvil" -> 10 [] OTHER -> 11

-----------------------------------------------------------------------------
(* Hashing and signatures.  keccak256 is collision-free: a hash is modelled *)
(* by its pre-image.  A signature is the pair (signer, message signed); a   *)
(* malformed signature is one ECDSA.recover rejects outright.               *)

keccak256(bytes) == [h |-> bytes]

toEthSignedMessageHash(digest) == [h |-> <<"Ethereum Signed Message:32", digest>>]

Sign(a, ethHash) == [signer |-> a, over |-> ethHash]

Malformed == [signer |-> "Zero", over |-> [h |-> <<>>]]

\* address recovered from a well-formed signature: its signer when the
\* signature is over this very hash, else an address nobody controls
recover(ethHash, sig) == IF sig.over = ethHash THEN sig.signer ELSE "Nobody"

-----------------------------------------------------------------------------
(* EIP7702Saver: encoding of a call batch *)

\* abi.encodePacked(encoded, to, value, data) for the calls in order; the
\* concatenation is computed by halves
RECURSIVE _encodeCalls(_)
_encodeCalls(calls) ==
    IF calls = <<>> THEN <<>>
    ELSE IF Len(calls) = 1
      THEN <<AddrWord(calls[1].to), calls[1].value>> \o calls[1].data
    ELSE CHOOSE encoded \in
             { _encodeCalls(first) \o _encodeCalls(rest) :
                 first \in {SubSeq(calls, 1, Len(calls) \div 2)},
                 rest \in {SubSeq(calls, Len(calls) \div 2 + 1, Len(calls))} } : TRUE

\* the value execute(calls, signature) recovers the signer against
CallDigest(n, calls) == toEthSignedMessageHash(keccak256(<<n>> \o _encodeCalls(calls)))

\* bits of an unsigned integer of the model, in place of the 256 of uint256
UintWidth == 3

UintMax == 2^UintWidth - 1

\* what a sum is when the addition has panicked
Panic == -1

\* faulty variant: the addition wraps
uncheckedAdd(a, b) == (a + b) % 2^UintWidth

\* a + b of two unsigned integers: the compiler's checked addition
checkedAdd(a, b) == IF a + b > UintMax THEN Panic ELSE a + b

\* the sum of two partial totals, either of which may have panicked
AddTotals(a, b) == IF a = Panic \/ b = Panic THEN Panic ELSE checkedAdd(a, b)

\* totalValueNeeded += calls[i].value for the calls in order; the sum is
\* computed by halves
RECURSIVE totalValueNeeded(_)
totalValueNeeded(calls) ==
    IF calls = <<>> THEN 0
    ELSE IF Len(calls) = 1 THEN calls[1].value
    ELSE CHOOSE total \in
             { AddTotals(left, right) :
                 left \in { totalValueNeeded(first) :
                              first \in {SubSeq(calls, 1, Len(calls) \div 2)} },
                 right \in { totalValueNeeded(rest) :
                               rest \in {SubSeq(calls, Len(calls) \div 2 + 1, Len(calls))} } } :
                 TRUE

-----------------------------------------------------------------------------
(* Inputs of the call-batch entry points *)

\* longest batch drawn item by item (the two boundary batches come on top)
MaxLen == 2

\* largest value sent along with a submission
MaxValue == 2

CallItems ==
    { [to |-> "Rcpt", value |-> 1, data |-> <<>>],
      [to |-> "Evil", value |-> 0, data |-> <<1>>] }

SeqsUpTo(S, n) == UNION { [1..k -> S] : k \in 0..n }

Repeat(x, n) == [k \in 1..n |-> x]

PlainCall == [to |-> "Rcpt", value |-> 0, data |-> <<>>]

\* a call whose payload reads like the (to, value) of another call
PayloadCall == [to |-> "Rcpt", value |-> 1, data |-> <<AddrWord("Rcpt"), 1>>]

\* a call of the largest value there is
LargestCall == [to |-> "Rcpt", value |-> UintMax, data |-> <<>>]

CallBatches ==
    SeqsUpTo(CallItems, MaxLen)
        \cup { Repeat(PlainCall, MAX_BATCH_SIZE), Repeat(PlainCall, MAX_BATCH_SIZE + 1) }
        \cup { <<PayloadCall>> }
        \cup { <<LargestCall>>, <<LargestCall, PlainCall>>,
               <<LargestCall, [PlainCall EXCEPT !.value = 1]>> }

\* the signatures offered with a call batch while the counter is n: by the
\* account over this batch and any counter value, by the account over a
\* longer batch, by the sponsor over this batch, or a malformed one
CallSignatures ==
    [calls \in CallBatches |->
        [n \in 0..MaxNonce |->
            { Sign("Acct", CallDigest(m, calls)) : m \in 0..MaxNonce }
                \cup { Sign("Acct", CallDigest(n, <<PlainCall>> \o calls)),
                       Sign("Sponsor", CallDigest(n, calls)),
                       Malformed }] @@ <<>>] @@ <<>>

NoMsg ==
    [fn |-> "none", sender |-> "Zero", value |-> 0, calls |-> <<>>,
     permits |-> <<>>, transfers |-> <<>>, signature |-> Malformed,
     bytecode |-> [defined |-> FALSE, bytes |-> <<>>]]

-----------------------------------------------------------------------------
(* The host: storage snapshot, revert, value transfer, the guard *)

Snapshot ==
    [nonce |-> nonce, _status |-> _status, eth |-> eth, balanceOf |-> balanceOf,
     allowance |-> allowance, nonces |-> nonces, accepted |-> accepted]

Pay(e, from, to, v) == [e EXCEPT ![from] = @ - v, ![to] = @ + v]

\* what identifies a submission: the function and its arguments
Key(m) ==
    [fn |-> m.fn, calls |-> m.calls, permits |-> m.permits,
     transfers |-> m.transfers, signature |-> m.signature]

\* faulty variant: a modifier that lets every call enter
nonReentrantMissing(s) == TRUE

\* nonReentrant, before the body: may a call with the flag at s enter?
nonReentrantBefore(s) == s # "ENTERED"

\* faulty variant: a modifier that forgets to release the flag
nonReentrantAfterForgotten == "ENTERED"

\* nonReentrant, after the body: the value the flag is left with
nonReentrantAfter == "NOT_ENTERED"

\* history: what was submitted, and the counter value it was accepted at
Receipt(m, n) ==
    [fn |-> m.fn, calls |-> m.calls, permits |-> m.permits, transfers |-> m.transfers,
     signature |-> m.signature, at |-> n]

\* faulty variant: a revert that gives back everything but the counter
RevertKeepsNonce(err) ==
    /\ _status' = pre._status
    /\ eth' = pre.eth
    /\ balanceOf' = pre.balanceOf
    /\ allowance' = pre.allowance
    /\ nonces' = pre.nonces
    /\ events' = <<>>
    /\ result' = err
    /\ pc' = "Aborted"
    /\ active' = active - 1
    /\ UNCHANGED <<contract, isLoading, ops, nonce, msg, i, currentNonce, ret, pre, accepted, reentry>>

\* revert E(): the submission ends; storage, balances and log are as before it
Revert(err) ==
    /\ nonce' = pre.nonce
    /\ _status' = pre._status
    /\ eth' = pre.eth
    /\ balanceOf' = pre.balanceOf
    /\ allowance' = pre.allowance
    /\ nonces' = pre.nonces
    /\ events' = <<>>
    /\ result' = err
    /\ pc' = "Aborted"
    /\ active' = active - 1
    /\ UNCHANGED <<contract, isLoading, ops, msg, i, currentNonce, ret, pre, accepted, reentry>>

\* the body has run to its end: the guard is released and the effects stay
Return ==
    /\ _status' = nonReentrantAfter
    /\ result' = "Committed"
    /\ pc' = "Committed"
    /\ active' = active - 1
    /\ accepted' \in IF msg.fn = "executeSelf" THEN {accepted}
                                                ELSE {accepted, {Receipt(msg, pre.nonce)}}

\* a top-level call of a nonReentrant function: the modifier, then the body
Enter(m, first) ==
    /\ pc = "idle"
    /\ nonce < MaxNonce
    /\ m.value <= eth[m.sender]
    /\ msg' = m
    /\ pre' = Snapshot
    /\ i' = 0
    /\ currentNonce' = 0
    /\ events' = <<>>
    /\ ret' = <<>>
    /\ reentry' = <<>>
    /\ IF nonReentrantBefore(_status)
         THEN /\ _status' = "ENTERED"
              /\ eth' = Pay(eth, m.sender, This, m.value)
              /\ pc' = first
              /\ result' = "pending"
              /\ active' = active + 1
         ELSE /\ pc' = "Aborted"
              /\ result' = "ReentrancyGuardReentrantCall"
              /\ UNCHANGED <<_status, eth, active>>
    /\ UNCHANGED <<contract, isLoading, ops, nonce, balanceOf, allowance, nonces, accepted>>

-----------------------------------------------------------------------------
(* EIP7702Saver *)

\* execute(calls) is called
SubmitExecuteSelf ==
    /\ contract = "EIP7702Saver"
    /\ pc = "idle"
    /\ \E sender \in {"Acct", "Sponsor"}, calls \in CallBatches, value \in 0..MaxValue :
          Enter([NoMsg EXCEPT !.fn = "executeSelf", !.sender = sender,
                              !.value = value, !.calls = calls], "authority")

\* execute(calls, signature) is called
SubmitExecute ==
    /\ contract = "EIP7702Saver"
    /\ pc = "idle"
    /\ \E sender \in {"Sponsor", "Evil"}, calls \in CallBatches, value \in 0..MaxValue :
          \E signature \in CallSignatures[calls][nonce] :
              Enter([NoMsg EXCEPT !.fn = "execute", !.sender = sender, !.value = value,
                                  !.calls = calls, !.signature = signature], "size")

\* faulty variant: no check of the sender
AuthorityAny(sender) == TRUE

\* msg.sender != address(this), negated: may this sender execute for the account?
AuthorityOk(sender) == sender = This

\* execute(calls): if (msg.sender != address(this)) revert InvalidAuthority()
executeSelf ==
    /\ pc = "authority"
    /\ IF ~AuthorityOk(msg.sender)
         THEN Revert("InvalidAuthority")
         ELSE /\ pc' = "batch"
              /\ UNCHANGED <<contract, isLoading, ops, nonce, _status, eth, balanceOf, allowance, nonces, msg, i,
                             currentNonce, events, result, ret, pre, accepted, reentry, active>>

\* faulty variant: the bound off by one
TooLargeOffByOne(length) == length >= MAX_BATCH_SIZE

\* calls.length > MAX_BATCH_SIZE
TooLarge(length) == length > MAX_BATCH_SIZE

\* execute(calls, signature): if (calls.length > MAX_BATCH_SIZE) revert BatchTooLarge()
executeSize ==
    /\ pc = "size"
    /\ msg.fn = "execute"
    /\ IF TooLarge(Len(msg.calls))
         THEN Revert("BatchTooLarge")
         ELSE /\ pc' = "verify"
              /\ UNCHANGED <<contract, isLoading, ops, nonce, _status, eth, balanceOf, allowance, nonces, msg, i,
                             currentNonce, events, result, ret, pre, accepted, reentry, active>>

\* does the signature of a sponsored call batch verify at counter value n?
executeSignatureOk(n, calls, signature) ==
    recover(CallDigest(n, calls), signature) = This

\* execute(calls, signature): digest, recover, compare with address(this)
executeVerify ==
    /\ pc = "verify"
    /\ msg.fn = "execute"
    /\ IF msg.signature = Malformed
         THEN Revert("ECDSAInvalidSignature")
         ELSE IF ~executeSignatureOk(nonce, msg.calls, msg.signature)
         THEN Revert("InvalidSignature")
         ELSE /\ pc' = "batch"
              /\ UNCHANGED <<contract, isLoading, ops, nonce, _status, eth, balanceOf, allowance, nonces, msg, i,
                             currentNonce, events, result, ret, pre, accepted, reentry, active>>

\* faulty variant: self-executed batches leave the counter alone
_executeBatchSponsoredOnly ==
    /\ pc = "batch"
    /\ currentNonce' = nonce
    /\ nonce' = IF msg.fn = "executeSelf" THEN nonce ELSE nonce + 1
    /\ pc' = "value"
    /\ UNCHANGED <<contract, isLoading, ops, _status, eth, balanceOf, allowance, nonces, msg, i,
                   events, result, ret, pre, accepted, reentry, active>>

\* _executeBatch, first two statements: currentNonce = nonce; nonce++
_executeBatch ==
    /\ pc = "batch"
    /\ currentNonce' = nonce
    /\ nonce' = nonce + 1
    /\ pc' = "value"
    /\ UNCHANGED <<contract, isLoading, ops, _status, eth, balanceOf, allowance, nonces, msg, i,
                   events, result, ret, pre, accepted, reentry, active>>

\* faulty variant: the exact value is refused as well
InsufficientOrExact(value, needed) == value <= needed

\* msg.value < totalValueNeeded
Insufficient(value, needed) == value < needed

\* _executeBatch: if (msg.value < totalValueNeeded) revert InsufficientETH()
_executeBatchValue ==
    /\ pc = "value"
    /\ IF totalValueNeeded(msg.calls) = Panic
         THEN Revert("Panic")
         ELSE IF Insufficient(msg.value, totalValueNeeded(msg.calls))
         THEN Revert("InsufficientETH")
         ELSE /\ i' = 0
              /\ pc' = "call"
              /\ UNCHANGED <<contract, isLoading, ops, nonce, _status, eth, balanceOf, allowance, nonces, msg,
                             currentNonce, events, result, ret, pre, accepted, reentry, active>>

CallExecuted(c) == <<"CallExecuted", msg.sender, c.to, c.value, c.data>>

BatchExecuted(n, count) == <<"BatchExecuted", n, count, msg.sender>>

\* faulty variant: the failure is reported but what the earlier items did stays
CallFailedKeepsEffects ==
    /\ _status' = nonReentrantAfter
    /\ result' = "CallFailed"
    /\ pc' = "Aborted"
    /\ active' = active - 1
    /\ UNCHANGED <<contract, isLoading, ops, nonce, eth, balanceOf, allowance, nonces, msg, i, currentNonce,
                   events, ret, pre, accepted, reentry>>

\* how an item that did not succeed ends the submission
CallFailed == Revert("CallFailed")

\* _executeCall(calls[i], i): the external call of item i
_executeCall ==
    /\ pc = "call"
    /\ i < Len(msg.calls)
    /\ LET call == msg.calls[i + 1]
       IN  IF eth[This] < call.value
             THEN CallFailed
             ELSE IF IsHostile(call.to)
             THEN /\ eth' = Pay(eth, This, call.to, call.value)
                  /\ pc' = "incall"
                  /\ reentry' = <<>>
                  /\ UNCHANGED <<contract, isLoading, ops, nonce, _status, balanceOf, allowance, nonces, msg, i,
                                 currentNonce, events, result, ret, pre, accepted, active>>
             ELSE /\ eth' = Pay(eth, This, call.to, call.value)
                  /\ events' = Append(events, CallExecuted(call))
                  /\ i' = i + 1
                  /\ UNCHANGED <<contract, isLoading, ops, nonce, _status, balanceOf, allowance, nonces, pc, msg,
                                 currentNonce, result, ret, pre, accepted, reentry, active>>

\* faulty variant: a call that did not succeed is passed over
CallReturnPassesOver ==
    /\ pc = "incall"
    /\ \E success \in BOOLEAN :
          /\ events' = IF success THEN Append(events, CallExecuted(msg.calls[i + 1]))
                                  ELSE events
          /\ i' = i + 1
          /\ pc' = "call"
          /\ reentry' = <<>>
          /\ UNCHANGED <<contract, isLoading, ops, nonce, _status, eth, balanceOf, allowance, nonces, msg,
                         currentNonce, result, ret, pre, accepted, active>>

\* faulty variant: a call that did not succeed is made again
CallReturnRetries ==
    /\ pc = "incall"
    /\ \E success \in BOOLEAN :
          IF ~success
            THEN /\ pc' = "call"
                 /\ reentry' = <<>>
                 /\ eth' = Pay(eth, msg.calls[i + 1].to, This, msg.calls[i + 1].value)
                 /\ UNCHANGED <<contract, isLoading, ops, nonce, _status, balanceOf, allowance, nonces, msg, i,
                                events, currentNonce, result, ret, pre, accepted, active>>
            ELSE /\ events' = Append(events, CallExecuted(msg.calls[i + 1]))
                 /\ i' = i + 1
                 /\ pc' = "call"
                 /\ reentry' = <<>>
                 /\ UNCHANGED <<contract, isLoading, ops, nonce, _status, eth, balanceOf, allowance, nonces, msg,
                                currentNonce, result, ret, pre, accepted, active>>

\* the callee of item i returns: (bool success, ) = call.to.call{value}(data)
CallReturn ==
    /\ pc = "incall"
    /\ \E success \in BOOLEAN :
          IF ~success
            THEN CallFailed
            ELSE /\ events' = Append(events, CallExecuted(msg.calls[i + 1]))
                 /\ i' = i + 1
                 /\ pc' = "call"
                 /\ reentry' = <<>>
                 /\ UNCHANGED <<contract, isLoading, ops, nonce, _status, eth, balanceOf, allowance, nonces, msg,
                                currentNonce, result, ret, pre, accepted, active>>

\* _executeBatch after the loop: the batch event, the refund of the excess
_executeBatchEnd ==
    /\ pc = "call"
    /\ i = Len(msg.calls)
    /\ events' = Append(events, BatchExecuted(currentNonce, Len(msg.calls)))
    /\ LET excess == msg.value - totalValueNeeded(msg.calls)
       IN  IF excess > 0 /\ IsHostile(msg.sender)
             THEN /\ eth' = Pay(eth, This, msg.sender, excess)
                  /\ pc' = "inrefund"
                  /\ reentry' = <<>>
                  /\ UNCHANGED <<_status, result, accepted, active>>
             ELSE /\ eth' = Pay(eth, This, msg.sender, excess)
                  /\ Return
                  /\ UNCHANGED reentry
    /\ UNCHANGED <<contract, isLoading, ops, nonce, balanceOf, allowance, nonces, msg, i, currentNonce, ret, pre>>

\* faulty variant: a refund that fails ends the submission
RefundReturnChecked ==
    /\ pc = "inrefund"
    /\ \E success \in BOOLEAN :
          IF success
            THEN /\ Return
                 /\ UNCHANGED <<contract, isLoading, ops, nonce, eth, balanceOf, allowance, nonces, msg, i,
                                currentNonce, events, ret, pre, reentry>>
            ELSE Revert("RefundFailed")

\* the receiver of the refund returns; its success is not looked at
RefundReturn ==
    /\ pc = "inrefund"
    /\ \E success \in BOOLEAN :
          eth' = IF success THEN eth
                 ELSE Pay(eth, msg.sender, This, msg.value - totalValueNeeded(msg.calls))
    /\ Return
    /\ UNCHANGED <<contract, isLoading, ops, nonce, balanceOf, allowance, nonces, msg, i, currentNonce,
                   events, ret, pre, reentry>>

-----------------------------------------------------------------------------
(* PermitSaver: inputs *)

\* block.timestamp of the submissions
BlockTimestamp == 1

Tokens == {"TokA", "TokB"}

TokenHolders == {"Owner", "Rcpt", "PS"}

\* (v, r, s) of a permit: who signed it, for which permit nonce of the token
Vrs(a, k) == [signer |-> a, nonce |-> k]

PermitData(token, owner, spender, value, deadline, vrs) ==
    [token |-> token, owner |-> owner, spender |-> spender, value |-> value,
     deadline |-> deadline, vrs |-> vrs]

TransferData(token, to, amount) == [token |-> token, to |-> to, amount |-> amount]

Pair(p, t) == [p |-> p, t |-> t]

\* a well-formed pair: the owner permits the contract `value` of the token,
\* `amount` of which goes to the recipient
GoodPair(token, value, amount) ==
    Pair(PermitData(token, "Owner", "PS", value, BlockTimestamp + 1, Vrs("Owner", 0)),
         TransferData(token, "Rcpt", amount))

CorePairs == { GoodPair("TokA", 1, 1), GoodPair("TokB", 1, 1) }

\* pairs that differ from a well-formed one in one respect; the last two: a
\* transfer of another token than the permit's, and a transfer of more than
\* the permit grants under a permit the token refuses
OddPairs ==
    LET g == GoodPair("TokA", 1, 1)
    IN  { [g EXCEPT !.p.owner = "Owner2"],
          [g EXCEPT !.p.spender = "Evil"],
          [g EXCEPT !.p.deadline = BlockTimestamp - 1],
          [g EXCEPT !.p.deadline = BlockTimestamp],
          [g EXCEPT !.t.to = "Zero"],
          [g EXCEPT !.p.vrs = Vrs("Nobody", 0)],
          GoodPair("TokB", 1, 2),
          GoodPair("TokEvil", 1, 1),
          [GoodPair("TokB", 1, 1) EXCEPT !.t.token = "TokA"],
          [GoodPair("TokA", 1, 2) EXCEPT !.p.vrs = Vrs("Nobody", 0)] }

PairBatches ==
    SeqsUpTo(CorePairs, MaxLen)
        \cup { <<d>> : d \in OddPairs }
        \cup { <<GoodPair("TokA", 1, 1), d>> : d \in OddPairs }
        \cup { Repeat(GoodPair("TokA", 1, 1), MAX_BATCH_SIZE),
               Repeat(GoodPair("TokA", 1, 1), MAX_BATCH_SIZE + 1) }

Permits(pairs) == [k \in 1..Len(pairs) |-> pairs[k].p]

Transfers(pairs) == [k \in 1..Len(pairs) |-> pairs[k].t]

\* the (permitDataArray, transferDataArray) arguments: the two arrays of a
\* batch of pairs, or two arrays of different lengths
PermitBatches ==
    { <<Permits(b), Transfers(b)>> : b \in PairBatches }
        \cup { <<Permits(<<d>>), <<>>>> : d \in CorePairs }
        \cup { <<<<>>, Transfers(<<d>>)>> : d \in CorePairs }
        \cup { <<Permits(Repeat(GoodPair("TokA", 1, 1), MAX_BATCH_SIZE)),
                 Transfers(Repeat(GoodPair("TokA", 1, 1), MAX_BATCH_SIZE + 1))>> }

-----------------------------------------------------------------------------
(* PermitSaver: the digests *)

\* _verifySignature: the value the signer of a single transfer is recovered against
SingleDigest(n, p, t) ==
    toEthSignedMessageHash(keccak256(
        <<AddrWord(p.token), AddrWord(p.owner), AddrWord(p.spender), p.value, p.deadline,
          AddrWord(t.token), AddrWord(t.to), t.amount, n>>))

\* _verifyBatchSignature, one round of the loop: pair k is hashed into h
messageHashStep(h, p, t) ==
    keccak256(<<h, AddrWord(p.token), AddrWord(p.owner), AddrWord(p.spender), p.value,
                p.deadline, AddrWord(t.token), AddrWord(t.to), t.amount>>)

\* _verifyBatchSignature, the loop: the pairs lo..hi are hashed into h one after
\* the other (the rounds lo..mid are computed, once, before the rounds after
\* mid are entered, which the binding of the intermediate hash sees to)
RECURSIVE messageHash(_, _, _, _, _)
messageHash(h, permits, transfers, lo, hi) ==
    IF lo > hi THEN h
    ELSE IF lo = hi THEN messageHashStep(h, permits[lo], transfers[lo])
    ELSE LET mid == (lo + hi) \div 2
         IN  CHOOSE hash \in { messageHash(sofar, permits, transfers, mid + 1, hi) :
                                 sofar \in { messageHash(h, permits, transfers, lo, mid) } } :
                 TRUE

\* _verifyBatchSignature: the value the signer of a batch is recovered against
BatchDigest(n, permits, transfers) ==
    toEthSignedMessageHash(
        messageHash(keccak256(<<Len(permits), Len(transfers), n>>),
                    permits, transfers, 1, Len(permits)))

\* the signatures offered with a permit batch while the counter is n: by the
\* owner over this batch and any counter value, by the owner over the batch
\* without its last pair, by the sponsor over this batch, or a malformed one
BatchSignatures ==
    [b \in PermitBatches |->
        [n \in 0..MaxNonce |->
            IF Len(b[1]) # Len(b[2]) \/ Len(b[1]) > MAX_BATCH_SIZE
              THEN {Malformed, Sign("Owner", BatchDigest(n, <<>>, <<>>))}
              ELSE { Sign("Owner", BatchDigest(m, b[1], b[2])) : m \in 0..MaxNonce }
                     \cup { Sign("Owner", BatchDigest(n, SubSeq(b[1], 1, Len(b[1]) - 1),
                                                         SubSeq(b[2], 1, Len(b[2]) - 1))),
                            Sign("Sponsor", BatchDigest(n, b[1], b[2])),
                            Malformed }] @@ <<>>] @@ <<>>

\* the signatures offered with a single transfer while the counter is n: by
\* the owner over this pair and any counter value, by the owner over the pair
\* with another amount, by the sponsor over this pair, or a malformed one
SingleSignatures ==
    [d \in CorePairs \cup OddPairs |->
        [n \in 0..MaxNonce |->
            { Sign("Owner", SingleDigest(m, d.p, d.t)) : m \in 0..MaxNonce }
                \cup { Sign("Owner", SingleDigest(n, d.p, [d.t EXCEPT !.amount = 2])),
                       Sign("Sponsor", SingleDigest(n, d.p, d.t)),
                       Malformed }] @@ <<>>] @@ <<>>

-----------------------------------------------------------------------------
(* The tokens.  TokA reverts when a transfer can not be made, TokB returns  *)
(* false; TokEvil is a contract that does what it likes (see Reenter).      *)

\* would token.permit(...) of the pair's permit succeed now?
PermitOk(p) ==
    /\ p.deadline >= BlockTimestamp
    /\ p.vrs.signer = p.owner
    /\ p.vrs.nonce = nonces[p.token]

\* would token.transferFrom(from, to, amount), called by the contract, succeed now?
TransferOk(from, t) ==
    /\ from = "Owner"
    /\ allowance[t.token] >= t.amount
    /\ balanceOf[t.token][from] >= t.amount

-----------------------------------------------------------------------------
(* PermitSaver *)

\* permitTransferWithSignature(permitData, transferData, signature) is called
SubmitPermitTransfer ==
    /\ contract = "PermitSaver"
    /\ pc = "idle"
    /\ \E d \in CorePairs \cup OddPairs :
          \E signature \in SingleSignatures[d][nonce] :
              Enter([NoMsg EXCEPT !.fn = "permitTransferWithSignature", !.sender = "Sponsor",
                                  !.permits = <<d.p>>, !.transfers = <<d.t>>,
                                  !.signature = signature], "validate")

\* permitTransferBatchWithSignature(permitDataArray, transferDataArray, signature) is called
SubmitPermitTransferBatch ==
    /\ contract = "PermitSaver"
    /\ pc = "idle"
    /\ \E b \in PermitBatches :
          \E signature \in BatchSignatures[b][nonce] :
              Enter([NoMsg EXCEPT !.fn = "permitTransferBatchWithSignature",
                                  !.sender = "Sponsor", !.permits = b[1], !.transfers = b[2],
                                  !.signature = signature], "psize")

\* faulty variant: a permit is refused at its deadline already
_validatePermitDataAtDeadline(p) ==
    IF p.token = "Zero" THEN "InvalidToken"
    ELSE IF p.owner = "Zero" THEN "InvalidToken"
    ELSE IF p.deadline <= BlockTimestamp THEN "PermitExpired"
    ELSE "ok"

\* _validatePermitData and _validateTransferData: the error they revert with, or "ok"
_validatePermitData(p) ==
    IF p.token = "Zero" THEN "InvalidToken"
    ELSE IF p.owner = "Zero" THEN "InvalidToken"
    ELSE IF p.deadline < BlockTimestamp THEN "PermitExpired"
    ELSE "ok"

_validateTransferData(t) ==
    IF t.token = "Zero" THEN "InvalidToken"
    ELSE IF t.to = "Zero" THEN "InvalidToken"
    ELSE IF t.amount = 0 THEN "InvalidToken"
    ELSE "ok"

\* faulty variant: the spender of the permit is not looked at
ItemCheckAnySpender(p, t) ==
    IF _validatePermitData(p) # "ok" THEN _validatePermitData(p)
    ELSE IF _validateTransferData(t) # "ok" THEN _validateTransferData(t)
    ELSE "ok"

\* the checks made on pair i before its permit is executed
ItemCheck(p, t) ==
    IF _validatePermitData(p) # "ok" THEN _validatePermitData(p)
    ELSE IF _validateTransferData(t) # "ok" THEN _validateTransferData(t)
    ELSE IF p.spender # This THEN "InvalidSpender"
    ELSE "ok"

\* permitTransferWithSignature: the validations and the spender check
permitTransferValidate ==
    /\ pc = "validate"
    /\ IF ItemCheck(msg.permits[1], msg.transfers[1]) # "ok"
         THEN Revert(ItemCheck(msg.permits[1], msg.transfers[1]))
         ELSE /\ pc' = "sverify"
              /\ UNCHANGED <<contract, isLoading, ops, nonce, _status, eth, balanceOf, allowance, nonces, msg, i,
                             currentNonce, events, result, ret, pre, accepted, reentry, active>>

\* _verifySignature: the error it reverts with, or "ok"
_verifySignature(n, p, t, signature) ==
    IF signature = Malformed THEN "ECDSAInvalidSignature"
    ELSE IF recover(SingleDigest(n, p, t), signature) # p.owner THEN "InvalidSignature"
    ELSE "ok"

permitTransferVerify ==
    /\ pc = "sverify"
    /\ LET v == _verifySignature(nonce, msg.permits[1], msg.transfers[1], msg.signature)
       IN  IF v # "ok"
             THEN Revert(v)
             ELSE /\ pc' = "permit"
                  /\ UNCHANGED <<contract, isLoading, ops, nonce, _status, eth, balanceOf, allowance, nonces,
                                 msg, i, currentNonce, events, result, ret, pre, accepted,
                                 reentry, active>>

\* faulty variant: the lengths are not compared with each other
permitTransferBatchSizeOnly ==
    /\ pc = "psize"
    /\ IF TooLarge(Len(msg.permits)) \/ TooLarge(Len(msg.transfers))
         THEN Revert("BatchTooLarge")
         ELSE /\ pc' = "pverify"
              /\ UNCHANGED <<contract, isLoading, ops, nonce, _status, eth, balanceOf, allowance, nonces, msg, i,
                             currentNonce, events, result, ret, pre, accepted, reentry, active>>

\* permitTransferBatchWithSignature: the two checks on the lengths
permitTransferBatchSize ==
    /\ pc = "psize"
    /\ IF TooLarge(Len(msg.permits)) \/ TooLarge(Len(msg.transfers))
         THEN Revert("BatchTooLarge")
         ELSE IF Len(msg.permits) # Len(msg.transfers)
         THEN Revert("ArrayLengthMismatch")
         ELSE /\ pc' = "pverify"
              /\ UNCHANGED <<contract, isLoading, ops, nonce, _status, eth, balanceOf, allowance, nonces, msg, i,
                             currentNonce, events, result, ret, pre, accepted, reentry, active>>

\* _verifyBatchSignature: the error it reverts with, or "ok"
_verifyBatchSignature(n, permits, transfers, signature) ==
    IF signature = Malformed THEN "ECDSAInvalidSignature"
    ELSE IF Len(permits) > 0
      THEN LET expectedOwner == permits[1].owner
           IN  IF \E k \in 1..Len(permits) : permits[k].owner # expectedOwner
                 THEN "InvalidSignature"
               ELSE IF recover(BatchDigest(n, permits, transfers), signature) # expectedOwner
                 THEN "InvalidSignature"
               ELSE "ok"
    ELSE "ok"

permitTransferBatchVerify ==
    /\ pc = "pverify"
    /\ LET v == _verifyBatchSignature(nonce, msg.permits, msg.transfers, msg.signature)
       IN  IF v # "ok"
             THEN Revert(v)
             ELSE /\ pc' = "advance"
                  /\ UNCHANGED <<contract, isLoading, ops, nonce, _status, eth, balanceOf, allowance, nonces,
                                 msg, i, currentNonce, events, result, ret, pre, accepted,
                                 reentry, active>>

\* faulty variant: the advance left out
AdvanceForgotten ==
    /\ pc = "advance"
    /\ currentNonce' = nonce
    /\ i' = 0
    /\ pc' = "item"
    /\ UNCHANGED <<contract, isLoading, ops, nonce, _status, eth, balanceOf, allowance, nonces, msg,
                   events, result, ret, pre, accepted, reentry, active>>

\* permitTransferBatchWithSignature: currentNonce = nonce; nonce++
permitTransferBatchAdvance ==
    /\ pc = "advance"
    /\ currentNonce' = nonce
    /\ nonce' = nonce + 1
    /\ i' = 0
    /\ pc' = "item"
    /\ UNCHANGED <<contract, isLoading, ops, _status, eth, balanceOf, allowance, nonces, msg,
                   events, result, ret, pre, accepted, reentry, active>>

\* the loop body up to the permit: validations and spender check of pair i
permitTransferBatchItem ==
    /\ pc = "item"
    /\ i < Len(msg.permits)
    /\ IF ItemCheck(msg.permits[i + 1], msg.transfers[i + 1]) # "ok"
         THEN Revert(ItemCheck(msg.permits[i + 1], msg.transfers[i + 1]))
         ELSE /\ pc' = "permit"
              /\ UNCHANGED <<contract, isLoading, ops, nonce, _status, eth, balanceOf, allowance, nonces, msg, i,
                             currentNonce, events, result, ret, pre, accepted, reentry, active>>

\* how a permit that failed without the allowance being there ends the submission
PermitFailed == Revert("PermitFailed")

\* how a transfer that reported no success ends the submission
TransferFailed == Revert("TransferFailed")

\* faulty variant: a permit call that fails ends the submission, whatever the allowance
_executePermitNoFallback ==
    /\ pc = "permit"
    /\ LET p == msg.permits[i + 1]
       IN  IF p.token = "TokEvil"
             THEN /\ pc' = "inpermit"
                  /\ reentry' = <<>>
                  /\ UNCHANGED <<contract, isLoading, ops, nonce, _status, eth, balanceOf, allowance, nonces,
                                 msg, i, currentNonce, events, result, ret, pre, accepted,
                                 active>>
           ELSE IF PermitOk(p)
             THEN /\ allowance' = [allowance EXCEPT ![p.token] = p.value]
                  /\ nonces' = [nonces EXCEPT ![p.token] = @ + 1]
                  /\ pc' = "transfer"
                  /\ UNCHANGED <<contract, isLoading, ops, nonce, _status, eth, balanceOf, msg, i,
                                 currentNonce, events, result, ret, pre, accepted, reentry,
                                 active>>
           ELSE PermitFailed

\* _executePermit(permitData) of pair i: try token.permit(...), and on any
\* failure look at the allowance
_executePermit ==
    /\ pc = "permit"
    /\ LET p == msg.permits[i + 1]
       IN  IF p.token = "TokEvil"
             THEN /\ pc' = "inpermit"
                  /\ reentry' = <<>>
                  /\ UNCHANGED <<contract, isLoading, ops, nonce, _status, eth, balanceOf, allowance, nonces,
                                 msg, i, currentNonce, events, result, ret, pre, accepted,
                                 active>>
           ELSE IF PermitOk(p)
             THEN /\ allowance' = [allowance EXCEPT ![p.token] = p.value]
                  /\ nonces' = [nonces EXCEPT ![p.token] = @ + 1]
                  /\ pc' = "transfer"
                  /\ UNCHANGED <<contract, isLoading, ops, nonce, _status, eth, balanceOf, msg, i,
                                 currentNonce, events, result, ret, pre, accepted, reentry,
                                 active>>
           ELSE IF allowance[p.token] < p.value
             THEN PermitFailed
           ELSE /\ pc' = "transfer"
                /\ UNCHANGED <<contract, isLoading, ops, nonce, _status, eth, balanceOf, allowance, nonces,
                               msg, i, currentNonce, events, result, ret, pre, accepted,
                               reentry, active>>

\* the permit call to a hostile token returns or fails, and so does the
\* allowance it is then asked for
PermitReturn ==
    /\ pc = "inpermit"
    /\ \E success \in BOOLEAN, enough \in BOOLEAN :
          IF ~success /\ ~enough
            THEN PermitFailed
            ELSE /\ pc' = "transfer"
                 /\ reentry' = <<>>
                 /\ UNCHANGED <<contract, isLoading, ops, nonce, _status, eth, balanceOf, allowance, nonces,
                                msg, i, currentNonce, events, result, ret, pre, accepted,
                                active>>

TokenSaved(p, t) == <<"TokenSaved", t.token, p.owner, t.to, t.amount>>

\* faulty variant: the event of a pair is put before those of the earlier pairs
AfterTransferEventFirst ==
    /\ events' = <<TokenSaved(msg.permits[i + 1], msg.transfers[i + 1])>> \o events
    /\ IF msg.fn = "permitTransferWithSignature"
         THEN /\ Return
              /\ UNCHANGED i
         ELSE /\ i' = i + 1
              /\ pc' = "item"
              /\ UNCHANGED <<_status, result, accepted, active>>
    /\ reentry' = <<>>
    /\ UNCHANGED <<contract, isLoading, ops, nonce, eth, nonces, msg, currentNonce, ret, pre>>

\* what follows the transfer of pair i: the event, and the next pair or the end
AfterTransfer ==
    /\ events' = Append(events, TokenSaved(msg.permits[i + 1], msg.transfers[i + 1]))
    /\ IF msg.fn = "permitTransferWithSignature"
         THEN /\ Return
              /\ UNCHANGED i
         ELSE /\ i' = i + 1
              /\ pc' = "item"
              /\ UNCHANGED <<_status, result, accepted, active>>
    /\ reentry' = <<>>
    /\ UNCHANGED <<contract, isLoading, ops, nonce, eth, nonces, msg, currentNonce, ret, pre>>

\* _executeTransferFromOwner(owner, transferData) of pair i
_executeTransferFromOwner ==
    /\ pc = "transfer"
    /\ LET p == msg.permits[i + 1]
           t == msg.transfers[i + 1]
       IN  IF t.token = "TokEvil"
             THEN /\ pc' = "intransfer"
                  /\ reentry' = <<>>
                  /\ UNCHANGED <<contract, isLoading, ops, nonce, _status, eth, balanceOf, allowance, nonces,
                                 msg, i, currentNonce, events, result, ret, pre, accepted,
                                 active>>
           ELSE IF TransferOk(p.owner, t)
             THEN /\ balanceOf' = [balanceOf EXCEPT ![t.token][p.owner] = @ - t.amount,
                                                    ![t.token][t.to] = @ + t.amount]
                  /\ allowance' = [allowance EXCEPT ![t.token] = @ - t.amount]
                  /\ AfterTransfer
           ELSE IF t.token = "TokA"
             THEN Revert("ERC20Reverted")
           ELSE TransferFailed

\* the transferFrom call to a hostile token returns true, returns false or reverts
TransferReturn ==
    /\ pc = "intransfer"
    /\ \E outcome \in {"true", "false", "revert"} :
          IF outcome = "revert" THEN Revert("ERC20Reverted")
          ELSE IF outcome = "false" THEN TransferFailed
          ELSE /\ AfterTransfer
               /\ UNCHANGED <<balanceOf, allowance>>

\* faulty variant: the batch event carries the counter as it is after the advance
permitTransferBatchEndAfterAdvance ==
    /\ pc = "item"
    /\ i = Len(msg.permits)
    /\ events' = Append(events, BatchExecuted(nonce, Len(msg.permits)))
    /\ Return
    /\ UNCHANGED <<contract, isLoading, ops, nonce, eth, balanceOf, allowance, nonces, msg, i, currentNonce,
                   ret, pre, reentry>>

\* permitTransferBatchWithSignature after the loop: the batch event
permitTransferBatchEnd ==
    /\ pc = "item"
    /\ i = Len(msg.permits)
    /\ events' = Append(events, BatchExecuted(currentNonce, Len(msg.permits)))
    /\ Return
    /\ UNCHANGED <<contract, isLoading, ops, nonce, eth, balanceOf, allowance, nonces, msg, i, currentNonce,
                   ret, pre, reentry>>

-----------------------------------------------------------------------------
(* Calls made from inside an external call of the submission in flight *)

EntryPoints ==
    IF contract = "EIP7702Saver"
      THEN {"executeSelf", "execute"}
      ELSE {"permitTransferWithSignature", "permitTransferBatchWithSignature"}

\* the callee (or whatever it calls) calls a batch entry point of the instance:
\* the modifier of that entry point decides whether the nested call enters
Reenter ==
    /\ pc \in {"incall", "inrefund", "inpermit", "intransfer"}
    /\ Len(reentry) < MaxReentry
    /\ \E fn \in EntryPoints :
          IF nonReentrantBefore(_status)
            THEN /\ reentry' = Append(reentry, <<fn, "entered">>)
                 /\ active' = active + 1
            ELSE /\ reentry' = Append(reentry, <<fn, "ReentrancyGuardReentrantCall">>)
                 /\ UNCHANGED active
    /\ UNCHANGED <<contract, isLoading, ops, nonce, _status, eth, balanceOf, allowance, nonces, pc, msg, i,
                   currentNonce, events, result, ret, pre, accepted>>

-----------------------------------------------------------------------------
(* The functions that are no batch entry point *)

\* a call of a function without the modifier ends at once
Ended(fn, sender, res, r) ==
    /\ contract \in {"EIP7702Saver", "PermitSaver"}
    /\ pc = "idle"
    /\ msg' = [NoMsg EXCEPT !.fn = fn, !.sender = sender]
    /\ pre' = Snapshot
    /\ result' = res
    /\ ret' = r
    /\ pc' = "Returned"
    /\ UNCHANGED <<contract, isLoading, ops, nonce, _status, allowance, nonces, i,
                   currentNonce, events, accepted, reentry, active>>

\* faulty variant: the call that reads the counter advances it
getContractInfoAdvances ==
    /\ contract \in {"EIP7702Saver", "PermitSaver"}
    /\ pc = "idle"
    /\ nonce < MaxNonce
    /\ msg' = [NoMsg EXCEPT !.fn = "getContractInfo", !.sender = "Sponsor"]
    /\ pre' = Snapshot
    /\ result' = "Returned"
    /\ ret' = <<nonce, MAX_BATCH_SIZE>>
    /\ nonce' = nonce + 1
    /\ pc' = "Returned"
    /\ UNCHANGED <<contract, isLoading, ops, _status, eth, balanceOf, allowance, nonces, i,
                   currentNonce, events, accepted, reentry, active>>

\* getContractInfo(): return (nonce, MAX_BATCH_SIZE)
getContractInfo ==
    /\ Ended("getContractInfo", "Sponsor", "Returned", <<nonce, MAX_BATCH_SIZE>>)
    /\ UNCHANGED <<eth, balanceOf>>

\* calculateETHNeeded(calls): the sum of the values
calculateETHNeeded ==
    /\ contract = "EIP7702Saver"
    /\ pc = "idle"
    /\ \E calls \in CallBatches :
          IF totalValueNeeded(calls) = Panic
            THEN Ended("calculateETHNeeded", "Sponsor", "Panic", <<>>)
            ELSE Ended("calculateETHNeeded", "Sponsor", "Returned", <<totalValueNeeded(calls)>>)
    /\ UNCHANGED <<eth, balanceOf>>

\* receive() external payable {}
receive ==
    /\ pc = "idle"
    /\ \E value \in 1..MaxValue :
          /\ value <= eth["Sponsor"]
          /\ eth' = Pay(eth, "Sponsor", This, value)
    /\ Ended("receive", "Sponsor", "Returned", <<>>)
    /\ UNCHANGED balanceOf

\* emergencyWithdraw(token, amount): what it moves goes from the account to
\* the account itself
emergencyWithdraw ==
    /\ contract = "EIP7702Saver"
    /\ pc = "idle"
    /\ \E sender \in {"Acct", "Sponsor"}, token \in {"Zero", "TokA"}, amount \in 0..MaxValue,
          success \in BOOLEAN :
          IF sender # This
            THEN Ended("emergencyWithdraw", sender, "Only via delegation", <<>>)
            ELSE IF token = "Zero"
            THEN Ended("emergencyWithdraw", sender,
                       IF eth[This] < amount THEN "TransferReverted" ELSE "Returned", <<>>)
            ELSE Ended("emergencyWithdraw", sender,
                       IF success THEN "Returned" ELSE "Token transfer failed", <<>>)
    /\ UNCHANGED <<eth, balanceOf>>

\* recoverToken(token, to, amount): only for the placeholder admin address
\* (native value is sent to the sponsor, tokens to the recipient)
recoverToken ==
    /\ contract = "PermitSaver"
    /\ pc = "idle"
    /\ \E sender \in {"Sponsor", "Admin123"}, token \in {"Zero", "TokA"}, amount \in 1..MaxValue :
          IF sender # "Admin123"
            THEN /\ Ended("recoverToken", sender, "Unauthorized", <<>>)
                 /\ UNCHANGED <<eth, balanceOf>>
          ELSE IF token = "Zero"
            THEN IF eth[This] < amount
                   THEN /\ Ended("recoverToken", sender, "TransferReverted", <<>>)
                        /\ UNCHANGED <<eth, balanceOf>>
                   ELSE /\ Ended("recoverToken", sender, "Returned", <<>>)
                        /\ eth' = Pay(eth, This, "Sponsor", amount)
                        /\ UNCHANGED balanceOf
          ELSE IF balanceOf[token][This] < amount
            THEN /\ Ended("recoverToken", sender, "ERC20Reverted", <<>>)
                 /\ UNCHANGED <<eth, balanceOf>>
          ELSE /\ Ended("recoverToken", sender, "Returned", <<>>)
               /\ balanceOf' = [balanceOf EXCEPT ![token][This] = @ - amount,
                                                 ![token]["Rcpt"] = @ + amount]
               /\ UNCHANGED eth

-----------------------------------------------------------------------------
(* The client: DelegationService.  A Hex value is the sequence of the bytes *)
(* after "0x"; getCode gives such a value or undefined.                     *)

\* bytes of an address
AddressLength == 20

\* "0xef0100"
Marker == <<239, 1, 0>>

Hex(bytes) == [defined |-> TRUE, bytes |-> bytes]

Undefined == [defined |-> FALSE, bytes |-> <<>>]

\* bytecode.startsWith(prefix), both taken after their "0x"
startsWith(bytes, prefix) ==
    /\ Len(bytes) >= Len(prefix)
    /\ SubSeq(bytes, 1, Len(prefix)) = prefix

\* "0x" + bytecode.slice(8): the bytes after the first three
slice8(bytes) == SubSeq(bytes, Len(Marker) + 1, Len(bytes))

\* what getCode may give for the account: nothing, the code of a delegated
\* account, codes that start like one, and codes that do not
Bytecodes ==
    LET a == [k \in 1..AddressLength |-> k]
    IN  { Undefined,
          Hex(<<>>),
          Hex(Marker \o a),
          Hex(Marker \o [k \in 1..AddressLength |-> 255]),
          Hex(Marker),
          Hex(Marker \o SubSeq(a, 1, AddressLength - 1)),
          Hex(Marker \o a \o <<0>>),
          Hex(<<239, 1>>),
          Hex(<<239, 1, 1>> \o a),
          Hex(<<96, 128, 96, 64>>) }

\* checkDelegation, from the bytecode on: what it returns, or the error it throws
checkDelegation(bytecode) ==
    IF ~bytecode.defined
      THEN [error |-> "none", hasDelegation |-> FALSE, delegatedAddress |-> <<>>]
    ELSE IF bytecode.bytes = <<>>
      THEN [error |-> "none", hasDelegation |-> FALSE, delegatedAddress |-> <<>>]
    ELSE IF startsWith(bytecode.bytes, Marker)
      THEN [error |-> "none", hasDelegation |-> TRUE,
            delegatedAddress |-> slice8(bytecode.bytes)]
    ELSE [error |-> "Failed to check delegation: Unknown bytecode",
          hasDelegation |-> FALSE, delegatedAddress |-> <<>>]

\* a DelegationResult as a sequence: hasDelegation (1 or 0), then the bytes of
\* delegatedAddress where there is one
Returned(r) == IF r.hasDelegation THEN <<1>> \o r.delegatedAddress ELSE <<0>>

\* the client asks for the delegation of an account
checkDelegationCall ==
    /\ contract = "EIP7702Saver"
    /\ pc = "idle"
    /\ \E bytecode \in Bytecodes :
          /\ msg' = [NoMsg EXCEPT !.fn = "checkDelegation", !.bytecode = bytecode]
          /\ result' = IF checkDelegation(bytecode).error = "none" THEN "Returned"
                                                                   ELSE "Error"
          /\ ret' = Returned(checkDelegation(bytecode))
    /\ pre' = Snapshot
    /\ pc' = "Returned"
    /\ UNCHANGED <<contract, isLoading, ops, nonce, _status, eth, balanceOf, allowance, nonces, i,
                   currentNonce, events, accepted, reentry, active>>

-----------------------------------------------------------------------------
(* The client: the digests that are signed *)

\* viem encodePacked: the words of one value of a type
PackedWord(type, value) ==
    IF type = "bytes" THEN value
    ELSE IF type = "address" THEN <<AddrWord(value)>>
    ELSE <<value>>

\* viem encodePacked(types, values)
RECURSIVE encodePacked(_, _)
encodePacked(types, values) ==
    IF types = <<>> THEN <<>>
    ELSE PackedWord(Head(types), Head(values)) \o encodePacked(Tail(types), Tail(values))

\* lib/crypto toEthSignedMessageHash(messageHash)
cryptoToEthSignedMessageHash(hash32) ==
    keccak256(encodePacked(<<"string", "bytes32">>,
                           <<"Ethereum Signed Message:32", hash32>>))

\* viem hashMessage({raw}): what account.signMessage signs for a raw 32-byte message
hashMessage(raw) == keccak256(<<"Ethereum Signed Message:32", raw>>)

\* EIP7702SaverService.executeBatch: the types and the values pushed for the calls
batchCallTypes(batchCalls) ==
    [k \in 1..(3 * Len(batchCalls)) |-> <<"address", "uint256", "bytes">>[((k - 1) % 3) + 1]]

batchCallValues(batchCalls) ==
    [k \in 1..(3 * Len(batchCalls)) |->
        LET call == batchCalls[((k - 1) \div 3) + 1]
        IN  IF (k - 1) % 3 = 0 THEN call.to
            ELSE IF (k - 1) % 3 = 1 THEN call.value
            ELSE call.data]

\* EIP7702SaverService.executeBatch: the hash that is signed for the calls
\* when the counter was read as n
executeBatchHash(n, batchCalls) ==
    cryptoToEthSignedMessageHash(
        keccak256(encodePacked(<<"uint256", "bytes">>,
                               <<n, encodePacked(batchCallTypes(batchCalls),
                                                 batchCallValues(batchCalls))>>)))

\* createBatchSignature: messageHash after the first k rounds of its loop
RECURSIVE createBatchMessageHash(_, _, _, _)
createBatchMessageHash(permitDataArray, transferDataArray, contractNonce, k) ==
    IF k = 0
      THEN keccak256(encodePacked(<<"uint256", "uint256", "uint256">>,
                                  <<Len(permitDataArray), Len(transferDataArray),
                                    contractNonce>>))
      ELSE keccak256(encodePacked(
               <<"bytes32", "address", "address", "address", "uint256", "uint256",
                 "address", "address", "uint256">>,
               <<createBatchMessageHash(permitDataArray, transferDataArray, contractNonce, k - 1),
                 permitDataArray[k].token, permitDataArray[k].owner,
                 permitDataArray[k].spender, permitDataArray[k].value,
                 permitDataArray[k].deadline, transferDataArray[k].token,
                 transferDataArray[k].to, transferDataArray[k].amount>>))

\* createBatchSignature(drainedAccount, permitDataArray, transferDataArray, contractNonce)
createBatchSignature(drainedAccount, permitDataArray, transferDataArray, contractNonce) ==
    Sign(drainedAccount,
         hashMessage(createBatchMessageHash(permitDataArray, transferDataArray, contractNonce,
                                            Len(permitDataArray))))

-----------------------------------------------------------------------------
(* The web client: the hooks useDelegation and usePermit, the services they  *)
(* call, and the page that calls them.  Its behaviours are those in which    *)
(* contract = "none"; what it reads from the chain is an input of the step   *)
(* that reads it.                                                            *)

Hooks == {"useDelegation", "usePermit"}

\* operations that may be in the model at a time
MaxOps == 2

Slots == 1..MaxOps

\* the variables of the contract instance
chainVars == <<contract, nonce, _status, eth, balanceOf, allowance, nonces, pc, msg, i,
               currentNonce, events, result, ret, pre, accepted, reentry, active>>

\* validatePrivateKey, validateAddress: "0x" and the right length; of the
\* strings of the model the empty one and "0x12" fail both
validatePrivateKey(pk) == pk \notin {"", "0x12"}

validateAddress(addr) == addr \notin {"", "0x12"}

\* the keys typed into the two fields of the page
DrainedKeys == {"drainedPk", ""}

SponsorKeys == {"sponsorPk", ""}

\* privateKeyToAccount(pk).address
privateKeyToAccount(pk) ==
    CASE pk = "drainedPk" -> "Owner" [] pk = "sponsorPk" -> "Sponsor" [] OTHER -> "Zero"

\* parseUnits(amount, decimals): amount * 10^decimals, kept as the two numbers
parseUnits(amount, decimals) == [units |-> amount, decimals |-> decimals]

\* a TokenTransfer of usePermit
TokenTransfer(token, amount, recipient) ==
    [token |-> token, amount |-> amount, recipient |-> recipient]

\* the three transfers of the page's Permit Transfer Batch button
PageTransfers(delegateAddr) ==
    <<TokenTransfer("TokA", 1, delegateAddr), TokenTransfer("TokB", 1, delegateAddr),
      TokenTransfer("TokC", 1, delegateAddr)>>

\* the transfer lists permitTransferBatch is called with
TransferLists ==
    LET g == TokenTransfer("TokA", 1, "Rcpt")
    IN  { <<>>, <<g>>, <<g, TokenTransfer("TokB", 1, "Rcpt")>>,
          PageTransfers("Rcpt"), PageTransfers(""),
          <<g, [g EXCEPT !.token = "0x12"]>>,
          <<g, [g EXCEPT !.amount = 0]>>,
          Repeat(g, MAX_BATCH_SIZE), Repeat(g, MAX_BATCH_SIZE + 1) }

\* an operation slot at rest
NoOp ==
    [op |-> "none", at |-> "rest", bytecode |-> [defined |-> FALSE, bytes |-> <<>>],
     list |-> <<>>, service |-> FALSE, permitDataArray |-> <<>>, transferDataArray |-> <<>>,
     signed |-> <<>>, sent |-> <<>>, status |-> <<"none", "">>, returned |-> "none"]

HookOf(op) == IF op = "permitTransferBatch" THEN "usePermit" ELSE "useDelegation"

\* every button of the page is disabled while useDelegation's isLoading is true
Disabled == isLoading["useDelegation"]

\* an operation of a hook is called: its validations fail with `error` and it
\* returns, or it sets isLoading and the info status, makes its service and
\* reaches its first await
Call(s, o, error, info, first) ==
    /\ contract = "none"
    /\ ~Disabled
    /\ ops[s].at = "rest"
    /\ IF error # ""
         THEN /\ ops' = [ops EXCEPT ![s] = [o EXCEPT !.at = "done", !.status = <<"error", error>>,
                                                     !.returned = "nothing"]]
              /\ UNCHANGED isLoading
         ELSE /\ ops' = [ops EXCEPT ![s] = [o EXCEPT !.at = first, !.status = <<"info", info>>,
                                                     !.service = TRUE]]
              /\ isLoading' = [isLoading EXCEPT ![HookOf(o.op)] = TRUE]
    /\ UNCHANGED chainVars

\* an await of the operation in slot s resolves and the operation moves on
Proceed(s, o) ==
    /\ ops' = [ops EXCEPT ![s] = o]
    /\ UNCHANGED <<isLoading, chainVars>>

\* the operation in slot s ends: the last status, the value returned, and
\* the finally block's setIsLoading(false)
Settle(s, o, type, message, returned) ==
    /\ ops' = [ops EXCEPT ![s] = [o EXCEPT !.at = "done", !.status = <<type, message>>,
                                           !.returned = returned]]
    /\ isLoading' = [isLoading EXCEPT ![HookOf(ops[s].op)] = FALSE]
    /\ UNCHANGED chainVars

\* useDelegation.checkDelegation(drainedPk, network)
useDelegationCheckDelegation ==
    \E s \in Slots, drainedPk \in DrainedKeys :
        Call(s, [NoOp EXCEPT !.op = "checkDelegation"],
             IF drainedPk = "" \/ ~validatePrivateKey(drainedPk)
               THEN "Invalid drained private key format" ELSE "",
             "Checking delegation...", "check")

\* DelegationService.checkDelegation resolves or rejects
checkDelegationSettled ==
    \E s \in Slots, bytecode \in Bytecodes :
        /\ ops[s].op = "checkDelegation"
        /\ ops[s].at = "check"
        /\ LET r == checkDelegation(bytecode)
           IN  IF r.error # "none"
                 THEN Settle(s, ops[s], "error",
                             "Error: Failed to check delegation: Unknown bytecode", "null")
               ELSE IF r.hasDelegation
                 THEN Settle(s, ops[s], "success", "Delegation found", "result")
               ELSE Settle(s, ops[s], "success", "No delegation found", "result")

\* useDelegation.setDelegation(drainedPk, delegateAddr, network)
useDelegationSetDelegation ==
    \E s \in Slots, drainedPk \in DrainedKeys, delegateAddr \in {"EIP7702Saver", ""} :
        Call(s, [NoOp EXCEPT !.op = "setDelegation"],
             IF drainedPk = "" \/ ~validatePrivateKey(drainedPk)
               THEN "Invalid drained private key format"
             ELSE IF delegateAddr = "" \/ ~validateAddress(delegateAddr)
               THEN "Invalid delegate address format" ELSE "",
             "Setting delegation...", "sign")

\* DelegationService.setDelegation: signAuthorization resolves or rejects
setDelegationSign ==
    \E s \in Slots, ok \in BOOLEAN :
        /\ ops[s].op = "setDelegation"
        /\ ops[s].at = "sign"
        /\ IF ok
             THEN Proceed(s, [ops[s] EXCEPT !.at = "send",
                                 !.signed = Append(@, <<"authorization", "EIP7702Saver", "self">>)])
             ELSE Settle(s, ops[s], "error", "Failed to set delegation", "null")

\* DelegationService.setDelegation: sendTransaction resolves or rejects
setDelegationSend ==
    \E s \in Slots, ok \in BOOLEAN :
        /\ ops[s].op = "setDelegation"
        /\ ops[s].at = "send"
        /\ IF ok
             THEN Settle(s, [ops[s] EXCEPT !.sent = Append(@, <<"Owner", "Owner", "authorization">>)],
                         "success", "Authorization successful!", "hash")
             ELSE Settle(s, ops[s], "error", "Failed to set delegation", "null")

\* useDelegation.revokeDelegation(drainedPk, sponsorPk, network)
useDelegationRevokeDelegation ==
    \E s \in Slots, drainedPk \in DrainedKeys, sponsorPk \in SponsorKeys :
        Call(s, [NoOp EXCEPT !.op = "revokeDelegation"],
             IF drainedPk = "" \/ ~validatePrivateKey(drainedPk)
               THEN "Invalid drained private key format"
             ELSE IF sponsorPk = "" \/ ~validatePrivateKey(sponsorPk)
               THEN "Invalid sponsor private key format" ELSE "",
             "Revoking delegation...", "check")

\* faulty variant: the revocation goes on whatever the account's code shows
revokeDelegationCheckIgnored ==
    \E s \in Slots, bytecode \in Bytecodes :
        /\ ops[s].op = "revokeDelegation"
        /\ ops[s].at = "check"
        /\ LET r == checkDelegation(bytecode)
               o == [ops[s] EXCEPT !.bytecode = bytecode]
           IN  IF r.error # "none" THEN Settle(s, o, "error", r.error, "null")
               ELSE Proceed(s, [o EXCEPT !.at = "sign"])

\* DelegationService.revokeDelegation: the account's code has been looked at
revokeDelegationCheck ==
    \E s \in Slots, bytecode \in Bytecodes :
        /\ ops[s].op = "revokeDelegation"
        /\ ops[s].at = "check"
        /\ LET r == checkDelegation(bytecode)
               o == [ops[s] EXCEPT !.bytecode = bytecode]
           IN  IF r.error # "none" THEN Settle(s, o, "error", r.error, "null")
               ELSE IF ~r.hasDelegation
                 THEN Settle(s, o, "error", "No delegation found to revoke", "null")
               ELSE Proceed(s, [o EXCEPT !.at = "sign"])

\* DelegationService.revokeDelegation: signAuthorization resolves or rejects
revokeDelegationSign ==
    \E s \in Slots, ok \in BOOLEAN :
        /\ ops[s].op = "revokeDelegation"
        /\ ops[s].at = "sign"
        /\ IF ok
             THEN Proceed(s, [ops[s] EXCEPT !.at = "send",
                                 !.signed = Append(@, <<"authorization", "Zero", "Sponsor">>)])
             ELSE Settle(s, ops[s], "error", "Failed to revoke delegation", "null")

\* DelegationService.revokeDelegation: the sponsor's sendTransaction resolves
\* or rejects
revokeDelegationSend ==
    \E s \in Slots, ok \in BOOLEAN :
        /\ ops[s].op = "revokeDelegation"
        /\ ops[s].at = "send"
        /\ IF ok
             THEN Settle(s, [ops[s] EXCEPT !.sent = Append(@, <<"Sponsor", "Owner", "authorization">>)],
                         "success", "Sponsored revocation successful!", "hash")
             ELSE Settle(s, ops[s], "error", "Failed to revoke delegation", "null")

\* useDelegation.saveTestTokens(drainedPk, sponsorPk, network)
useDelegationSaveTestTokens ==
    \E s \in Slots, drainedPk \in DrainedKeys, sponsorPk \in SponsorKeys :
        Call(s, [NoOp EXCEPT !.op = "saveTestTokens"],
             IF drainedPk = "" \/ ~validatePrivateKey(drainedPk)
               THEN "Invalid drained private key format"
             ELSE IF sponsorPk = "" \/ ~validatePrivateKey(sponsorPk)
               THEN "Invalid sponsor private key format" ELSE "",
             "Saving test tokens...", "nonce")

\* EIP7702SaverService.executeBatch: the counter is read and the digest signed,
\* or the read rejects
executeBatchNonce ==
    \E s \in Slots, ok \in BOOLEAN :
        /\ ops[s].op = "saveTestTokens"
        /\ ops[s].at = "nonce"
        /\ IF ok
             THEN Proceed(s, [ops[s] EXCEPT !.at = "send",
                                 !.signed = Append(@, <<"digest", "Owner", "execute">>)])
             ELSE Settle(s, ops[s], "error", "Failed to execute batch", "null")

\* EIP7702SaverService.executeBatch: the sponsor's sendTransaction resolves or
\* rejects
executeBatchSend ==
    \E s \in Slots, ok \in BOOLEAN :
        /\ ops[s].op = "saveTestTokens"
        /\ ops[s].at = "send"
        /\ IF ok
             THEN Settle(s, [ops[s] EXCEPT !.sent = Append(@, <<"Sponsor", "Owner", "execute">>)],
                         "success", "Execution successful!", "hash")
             ELSE Settle(s, ops[s], "error", "Failed to execute batch", "null")

\* faulty variant: the length of the list is not looked at
permitTransferBatchValidationUncapped(drainedPk, sponsorPk, transfers) ==
    IF ~validatePrivateKey(drainedPk) THEN "Invalid drained private key format"
    ELSE IF ~validatePrivateKey(sponsorPk) THEN "Invalid sponsor private key format"
    ELSE IF \E k \in 1..Len(transfers) :
               /\ \A j \in 1..(k - 1) :
                     /\ validateAddress(transfers[j].token)
                     /\ validateAddress(transfers[j].recipient)
                     /\ transfers[j].amount > 0
               /\ ~validateAddress(transfers[k].token)
      THEN "Invalid token address"
    ELSE IF \E k \in 1..Len(transfers) :
               /\ \A j \in 1..(k - 1) :
                     /\ validateAddress(transfers[j].recipient)
                     /\ transfers[j].amount > 0
               /\ ~validateAddress(transfers[k].recipient)
      THEN "Invalid recipient"
    ELSE IF \E k \in 1..Len(transfers) : transfers[k].amount <= 0
      THEN "Invalid amount"
    ELSE ""

\* usePermit.permitTransferBatch: the error of its validations, or "" when
\* they pass
permitTransferBatchValidation(drainedPk, sponsorPk, transfers) ==
    IF ~validatePrivateKey(drainedPk) THEN "Invalid drained private key format"
    ELSE IF ~validatePrivateKey(sponsorPk) THEN "Invalid sponsor private key format"
    ELSE IF Len(transfers) = 0 THEN "No transfers provided"
    ELSE IF Len(transfers) > 50 THEN "Too many transfers (max 50)"
    ELSE IF \E k \in 1..Len(transfers) :
               /\ \A j \in 1..(k - 1) :
                     /\ validateAddress(transfers[j].token)
                     /\ validateAddress(transfers[j].recipient)
                     /\ transfers[j].amount > 0
               /\ ~validateAddress(transfers[k].token)
      THEN "Invalid token address"
    ELSE IF \E k \in 1..Len(transfers) :
               /\ \A j \in 1..(k - 1) :
                     /\ validateAddress(transfers[j].recipient)
                     /\ transfers[j].amount > 0
               /\ ~validateAddress(transfers[k].recipient)
      THEN "Invalid recipient"
    ELSE IF \E k \in 1..Len(transfers) : transfers[k].amount <= 0
      THEN "Invalid amount"
    ELSE ""

\* usePermit.permitTransferBatch(drainedPk, sponsorPk, transfers, network)
usePermitPermitTransferBatch ==
    \E s \in Slots, drainedPk \in DrainedKeys, sponsorPk \in SponsorKeys,
       transfers \in TransferLists :
        Call(s, [NoOp EXCEPT !.op = "permitTransferBatch", !.list = transfers],
             permitTransferBatchValidation(drainedPk, sponsorPk, transfers),
             "Executing batch transfer...", "support")

\* usePermit.permitTransferBatch: checkPermitSupport has been awaited for
\* every transfer
permitTransferBatchSupport ==
    \E s \in Slots, supported \in BOOLEAN :
        /\ ops[s].op = "permitTransferBatch"
        /\ ops[s].at = "support"
        /\ IF supported
             THEN Proceed(s, [ops[s] EXCEPT !.at = "prepare"])
             ELSE Settle(s, ops[s], "error",
                         "Batch transfer failed: Tokens do not support permit", "null")

\* the deadline of the permits the service makes: an hour from now
Deadline == BlockTimestamp + 3600

\* PermitSaverService.permitTransferBatch, the loop: the permit and the
\* transfer made for one TokenTransfer
permitDataOf(owner, transfer, tokenNonce) ==
    PermitData(transfer.token, owner, "PS", parseUnits(transfer.amount, 18), Deadline,
               Vrs(owner, tokenNonce))

transferDataOf(transfer) ==
    TransferData(transfer.token, transfer.recipient, parseUnits(transfer.amount, 18))

\* PermitSaverService.permitTransferBatch: the counter is read and the two
\* arrays are built, or one of the reads or signatures rejects
permitTransferBatchPrepare ==
    \E s \in Slots, ok \in BOOLEAN :
        /\ ops[s].op = "permitTransferBatch"
        /\ ops[s].at = "prepare"
        /\ IF ok
             THEN Proceed(s, [ops[s] EXCEPT
                     !.at = "sign",
                     !.permitDataArray =
                         [k \in 1..Len(ops[s].list) |->
                             permitDataOf(privateKeyToAccount("drainedPk"), ops[s].list[k], 0)],
                     !.transferDataArray =
                         [k \in 1..Len(ops[s].list) |-> transferDataOf(ops[s].list[k])]])
             ELSE Settle(s, ops[s], "error",
                         "Batch transfer failed: Failed to execute permit transfer batch", "null")

\* PermitSaverService.permitTransferBatch: createBatchSignature resolves or rejects
permitTransferBatchSign ==
    \E s \in Slots, ok \in BOOLEAN :
        /\ ops[s].op = "permitTransferBatch"
        /\ ops[s].at = "sign"
        /\ IF ok
             THEN Proceed(s, [ops[s] EXCEPT !.at = "send",
                     !.signed = Append(@, <<"batch", privateKeyToAccount("drainedPk"),
                                            "permitTransferBatchWithSignature">>)])
             ELSE Settle(s, ops[s], "error",
                         "Batch transfer failed: Failed to execute permit transfer batch", "null")

\* PermitSaverService.permitTransferBatch: the gas estimate and the sponsor's
\* sendTransaction resolve, or one of them rejects
permitTransferBatchSend ==
    \E s \in Slots, ok \in BOOLEAN :
        /\ ops[s].op = "permitTransferBatch"
        /\ ops[s].at = "send"
        /\ IF ok
             THEN Proceed(s, [ops[s] EXCEPT !.at = "receipt",
                     !.sent = Append(@, <<privateKeyToAccount("sponsorPk"), "PS",
                                          "permitTransferBatchWithSignature">>)])
             ELSE Settle(s, ops[s], "error",
                         "Batch transfer failed: Failed to execute permit transfer batch", "null")

\* PermitSaverService.permitTransferBatch: waitForTransactionReceipt resolves
\* or rejects
permitTransferBatchReceipt ==
    \E s \in Slots, ok \in BOOLEAN :
        /\ ops[s].op = "permitTransferBatch"
        /\ ops[s].at = "receipt"
        /\ IF ok
             THEN Settle(s, ops[s], "success", "Batch transfer successful!", "result")
             ELSE Settle(s, ops[s], "error",
                         "Batch transfer failed: Failed to execute permit transfer batch", "null")

\* an operation that has ended is forgotten
Rest ==
    \E s \in Slots :
        /\ ops[s].at = "done"
        /\ ops' = [ops EXCEPT ![s] = NoOp]
        /\ UNCHANGED <<isLoading, chainVars>>

-----------------------------------------------------------------------------

\* the submission is over: nothing of it stays but the instance's state
Finish ==
    /\ pc \in {"Committed", "Aborted", "Returned"}
    /\ pc' = "idle"
    /\ msg' = NoMsg
    /\ i' = 0
    /\ currentNonce' = 0
    /\ events' = <<>>
    /\ result' = "none"
    /\ ret' = <<>>
    /\ pre' = Snapshot
    /\ reentry' = <<>>
    /\ UNCHANGED <<contract, isLoading, ops, nonce, _status, eth, balanceOf, allowance, nonces, accepted, active>>

-----------------------------------------------------------------------------

Init ==
    /\ contract \in {"EIP7702Saver", "PermitSaver", "none"}
    /\ isLoading = [hook \in Hooks |-> FALSE]
    /\ ops = [s \in Slots |-> NoOp]
    /\ nonce = 0
    /\ _status = "NOT_ENTERED"
    /\ eth = IF contract = "EIP7702Saver"
               THEN [a \in EthHolders |->
                        IF a = "Sponsor" THEN 2 ELSE IF a \in {"Evil", "Acct"} THEN 1 ELSE 0]
               ELSE [a \in EthHolders |-> IF a = "Sponsor" THEN 1 ELSE 0]
    /\ balanceOf = [t \in Tokens |-> [a \in TokenHolders |-> IF a = "Owner" THEN 2 ELSE 0]]
    /\ allowance = [t \in Tokens |-> IF t = "TokA" THEN 2 ELSE 0]
    /\ nonces = [t \in Tokens |-> 0]
    /\ pc = "idle"
    /\ msg = NoMsg
    /\ i = 0
    /\ currentNonce = 0
    /\ events = <<>>
    /\ result = "none"
    /\ ret = <<>>
    /\ accepted = {}
    /\ pre = [nonce |-> nonce, _status |-> _status, eth |-> eth, balanceOf |-> balanceOf,
              allowance |-> allowance, nonces |-> nonces, accepted |-> accepted]
    /\ reentry = <<>>
    /\ active = 0

Next ==
    \/ SubmitExecuteSelf
    \/ SubmitExecute
    \/ executeSelf
    \/ executeSize
    \/ executeVerify
    \/ _executeBatch
    \/ _executeBatchValue
    \/ _executeCall
    \/ CallReturn
    \/ _executeBatchEnd
    \/ RefundReturn
    \/ SubmitPermitTransfer
    \/ SubmitPermitTransferBatch
    \/ permitTransferValidate
    \/ permitTransferVerify
    \/ permitTransferBatchSize
    \/ permitTransferBatchVerify
    \/ permitTransferBatchAdvance
    \/ permitTransferBatchItem
    \/ _executePermit
    \/ PermitReturn
    \/ _executeTransferFromOwner
    \/ TransferReturn
    \/ permitTransferBatchEnd
    \/ recoverToken
    \/ Reenter
    \/ getContractInfo
    \/ calculateETHNeeded
    \/ receive
    \/ emergencyWithdraw
    \/ checkDelegationCall
    \/ useDelegationCheckDelegation
    \/ checkDelegationSettled
    \/ useDelegationSetDelegation
    \/ setDelegationSign
    \/ setDelegationSend
    \/ useDelegationRevokeDelegation
    \/ revokeDelegationCheck
    \/ revokeDelegationSign
    \/ revokeDelegationSend
    \/ useDelegationSaveTestTokens
    \/ executeBatchNonce
    \/ executeBatchSend
    \/ usePermitPermitTransferBatch
    \/ permitTransferBatchSupport
    \/ permitTransferBatchPrepare
    \/ permitTransferBatchSign
    \/ permitTransferBatchSend
    \/ permitTransferBatchReceipt
    \/ Rest
    \/ Finish

Spec == Init /\ [][Next]_vars

\* the steps of a submission in flight, the returns of its external calls included
Run ==
    \/ executeSelf
    \/ executeSize
    \/ executeVerify
    \/ _executeBatch
    \/ _executeBatchValue
    \/ _executeCall
    \/ CallReturn
    \/ _executeBatchEnd
    \/ RefundReturn
    \/ permitTransferValidate
    \/ permitTransferVerify
    \/ permitTransferBatchSize
    \/ permitTransferBatchVerify
    \/ permitTransferBatchAdvance
    \/ permitTransferBatchItem
    \/ _executePermit
    \/ PermitReturn
    \/ _executeTransferFromOwner
    \/ TransferReturn
    \/ permitTransferBatchEnd

\* a transaction runs on as long as it has a next step, and every external
\* call returns
LiveSpec == Spec /\ WF_vars(Run)

-----------------------------------------------------------------------------
(* Vocabulary of the properties *)

\* a submission to a batch entry point has ended
Terminal == pc \in {"Committed", "Aborted"}

SponsoredBatch == {"execute", "permitTransferBatchWithSignature"}

ExecutionErrors == {"CallFailed", "PermitFailed", "TransferFailed"}

\* the submission in flight has left nothing behind
NoEffect ==
    /\ nonce = pre.nonce
    /\ eth = pre.eth
    /\ balanceOf = pre.balanceOf
    /\ allowance = pre.allowance
    /\ nonces = pre.nonces
    /\ events = <<>>

\* the arrays of submission k pass the checks made on their lengths
WellSized(k) ==
    /\ Len(k.calls) <= MAX_BATCH_SIZE
    /\ Len(k.permits) <= MAX_BATCH_SIZE
    /\ Len(k.permits) = Len(k.transfers)

\* the digest of the batch of submission k at counter value n
DigestAt(k, n) ==
    IF k.fn = "execute" THEN CallDigest(n, k.calls)
    ELSE BatchDigest(n, k.permits, k.transfers)

\* the party that authorizes the batches of an entry point
Authorizer(k) == IF k.fn = "execute" THEN "Acct" ELSE "Owner"

\* submission k carries the authorizer's signature over its batch at counter value n
SignedAt(k, n) == k.signature = Sign(Authorizer(k), DigestAt(k, n))

NonEmpty(k) == Len(k.calls) + Len(k.permits) > 0

-----------------------------------------------------------------------------
(* C1 *)

\* the submission in flight repeats one that was accepted at a counter value
\* the counter has advanced past
Replayed == \E k \in pre.accepted : Key(k) = Key(msg) /\ k.at < pre.nonce

\* C1 (as claimed): a (batch, signature) pair that a sponsored batch entry
\* point has committed is rejected with InvalidSignature whenever it is
\* submitted again, for batches of every length.
SingleUseSignature ==
    (Terminal /\ msg.fn \in SponsoredBatch /\ Replayed)
        => result = "InvalidSignature"

\* C1 (what holds): a committed (batch, signature) pair whose batch holds at
\* least one item is rejected with InvalidSignature when it is submitted again.
SingleUseSignatureNonEmpty ==
    (Terminal /\ msg.fn \in SponsoredBatch /\ Replayed /\ NonEmpty(msg))
        => result = "InvalidSignature"

ReplayRejected ==
    /\ pc = "Aborted"
    /\ msg.fn \in SponsoredBatch
    /\ Replayed
    /\ NonEmpty(msg)

-----------------------------------------------------------------------------
(* C2 *)

\* the submission that has ended raced the committed k: another batch, signed
\* by the same authorizer against the counter value k was signed against and
\* accepted at
Raced(k) ==
    /\ k.fn = msg.fn
    /\ <<k.calls, k.permits, k.transfers>> # <<msg.calls, msg.permits, msg.transfers>>
    /\ SignedAt(k, k.at)
    /\ SignedAt(msg, k.at)

\* C2 (as claimed): of two different batches signed against one counter value,
\* the one submitted after the other has committed fails with InvalidSignature
\* and leaves no effect.
RaceOneCommits ==
    (Terminal /\ msg.fn \in SponsoredBatch /\ WellSized(msg))
        => \A k \in pre.accepted : Raced(k) => (result = "InvalidSignature" /\ NoEffect)

\* C2 (what holds): of two different batches of at least one item each, signed
\* against one counter value, the one submitted after the other has committed
\* fails with InvalidSignature and leaves no effect.
RaceOneCommitsNonEmpty ==
    (Terminal /\ msg.fn \in SponsoredBatch /\ WellSized(msg) /\ NonEmpty(msg))
        => \A k \in pre.accepted :
              (NonEmpty(k) /\ Raced(k)) => (result = "InvalidSignature" /\ NoEffect)

RaceLost ==
    /\ pc = "Aborted"
    /\ msg.fn \in SponsoredBatch
    /\ NonEmpty(msg)
    /\ \E k \in pre.accepted : NonEmpty(k) /\ Raced(k)

-----------------------------------------------------------------------------
(* C3 *)

\* C3: when an item of a batch fails during execution, nothing that the
\* earlier items did and no event of the submission is left after it.
Atomicity ==
    (Terminal /\ result \in ExecutionErrors)
        => /\ eth = pre.eth
           /\ balanceOf = pre.balanceOf
           /\ allowance = pre.allowance
           /\ nonces = pre.nonces
           /\ events = <<>>

\* item 1 of a call batch failed after item 0 had paid the recipient
AtomicityWitness ==
    /\ pc = "Aborted"
    /\ result = "CallFailed"
    /\ i = 1
    /\ msg.calls[1].value > 0

\* pair 1 of a permit batch failed after pair 0 had been transferred
AtomicityWitnessPermit ==
    /\ pc = "Aborted"
    /\ result \in {"PermitFailed", "TransferFailed"}
    /\ i = 1

-----------------------------------------------------------------------------
(* C4 *)

-----------------------------------------------------------------------------
(* C5 *)

BatchEntryPoints == {"executeSelf", "execute", "permitTransferBatchWithSignature"}

\* what one step may do to the counter
CounterStep ==
    /\ nonce' # nonce =>
          \/ nonce' = nonce + 1 /\ msg.fn \in BatchEntryPoints /\ pc \in {"batch", "advance"}
          \/ nonce' = pre.nonce /\ pc' = "Aborted"
    /\ pc = "idle" => pre'.nonce = nonce
    /\ pc' \in {"Committed", "Aborted", "Returned"} =>
          nonce' = pre'.nonce
                     + (IF pc' = "Committed" /\ msg'.fn \in BatchEntryPoints THEN 1 ELSE 0)

\* C5: the counter is 0 at creation; it changes only inside a batch entry
\* point; a submission leaves it one higher when it is a batch that commits
\* and as it was in every other case.
CounterInvariant == nonce = 0 /\ [][CounterStep]_vars

\* the counter never is below the value it had when the submission started
CounterNeverBelow == nonce >= pre.nonce

CounterWitness ==
    /\ pc = "Committed"
    /\ msg.fn = "permitTransferBatchWithSignature"
    /\ nonce = 2

-----------------------------------------------------------------------------
(* C6 *)

\* the signature of submission k is the required signer's, over the digest at n
RequiredSignerSigned(k, n) ==
    IF k.fn = "execute"
      THEN recover(CallDigest(n, k.calls), k.signature) = "Acct"
      ELSE /\ Len(k.permits) > 0
           /\ \A j \in 1..Len(k.permits) : k.permits[j].owner = k.permits[1].owner
           /\ recover(BatchDigest(n, k.permits, k.transfers), k.signature) = k.permits[1].owner

\* C6 (as claimed): a sponsored batch commits only with the required signer's
\* signature; with any other (well-formed) signature it ends with
\* InvalidSignature and nothing done.
RequiredSigner ==
    (Terminal /\ msg.fn \in SponsoredBatch /\ WellSized(msg) /\ msg.signature # Malformed)
        => IF RequiredSignerSigned(msg, pre.nonce)
             THEN result # "InvalidSignature"
             ELSE result = "InvalidSignature" /\ NoEffect

\* C6 (what holds): a sponsored batch of at least one item commits only with
\* the required signer's signature; with any other well-formed signature it
\* ends with InvalidSignature and nothing done.
RequiredSignerNonEmpty ==
    (Terminal /\ msg.fn \in SponsoredBatch /\ WellSized(msg) /\ msg.signature # Malformed
        /\ NonEmpty(msg))
        => IF RequiredSignerSigned(msg, pre.nonce)
             THEN result # "InvalidSignature"
             ELSE result = "InvalidSignature" /\ NoEffect

\* a permit batch signed by somebody else than the owner was refused
RequiredSignerRefused ==
    /\ pc = "Aborted"
    /\ result = "InvalidSignature"
    /\ msg.fn = "permitTransferBatchWithSignature"
    /\ Len(msg.permits) > 0
    /\ msg.signature.signer = "Sponsor"

-----------------------------------------------------------------------------
(* C7 *)

\* C7: execute(calls) commits only for the account itself; for any other
\* sender it ends with InvalidAuthority and nothing done; the path never
\* reaches the signature check.
SelfExecutionAuthority ==
    msg.fn = "executeSelf"
        => /\ pc # "verify"
           /\ pc = "Committed" => msg.sender = "Acct"
           /\ (Terminal /\ msg.sender # "Acct") => (result = "InvalidAuthority" /\ NoEffect)
           /\ pc \in {"batch", "value", "call", "incall", "inrefund"} => msg.sender = "Acct"

SelfExecutionRefused ==
    /\ pc = "Aborted"
    /\ msg.fn = "executeSelf"
    /\ msg.sender = "Sponsor"
    /\ Len(msg.calls) > 0

-----------------------------------------------------------------------------
(* C8 *)

\* C8: every call of a batch entry point made from inside a batch that is
\* executing fails, and at most one batch executes on the instance.
NoReentrancy ==
    /\ active <= 1
    /\ \A k \in 1..Len(reentry) : reentry[k][2] = "ReentrancyGuardReentrantCall"

ReentryAttempted ==
    /\ pc \in {"incall", "inrefund", "inpermit", "intransfer"}
    /\ Len(reentry) > 0

-----------------------------------------------------------------------------
(* C9 *)

\* C9: when a submission has ended, committed or aborted, the flag of the
\* guard is clear, and no top-level submission is rejected by the guard.
GuardReleased ==
    pc \in {"idle", "Committed", "Aborted"}
        => /\ _status # "ENTERED"
           /\ result # "ReentrancyGuardReentrantCall"
           /\ active = 0

\* a submission that was let in after one that committed and one that aborted
GuardReleasedWitness ==
    /\ pc = "Aborted"
    /\ result \in ExecutionErrors
    /\ pre.accepted # {}

-----------------------------------------------------------------------------
(* C10 *)

\* the lengths of the submission in flight are within the bound
WithinBound == Len(msg.calls) <= MAX_BATCH_SIZE /\ Len(msg.permits) <= MAX_BATCH_SIZE
                  /\ Len(msg.transfers) <= MAX_BATCH_SIZE

\* C10: on the sponsored entry points a batch of exactly 50 items is not
\* rejected for its size, and a batch with an array of more than 50 goes from
\* the size check to BatchTooLarge: no signature is recovered, the counter is
\* not advanced.
BatchSizeBoundary ==
    msg.fn \in SponsoredBatch
        => /\ ~WithinBound =>
                /\ pc \in {"size", "psize", "Aborted"}
                /\ pc = "Aborted" => (result = "BatchTooLarge" /\ NoEffect)
           /\ WithinBound => result # "BatchTooLarge"

\* a call batch of exactly 50 items is at the signature check
BoundaryWitness ==
    /\ pc = "verify"
    /\ Len(msg.calls) = MAX_BATCH_SIZE

BoundaryWitnessTooLarge ==
    /\ pc = "Aborted"
    /\ result = "BatchTooLarge"
    /\ msg.signature # Malformed

-----------------------------------------------------------------------------
(* C11 *)

\* the positions of a submission from the counter advance on
Executing ==
    {"batch", "value", "call", "incall", "inrefund",
     "advance", "item", "permit", "inpermit", "transfer", "intransfer"}

\* C11 (as claimed): on every batch entry point, execute(calls) included, a
\* batch with an array of more than 50 items never is executing or committed.
HardCap ==
    (msg.fn \in BatchEntryPoints /\ ~WithinBound) => pc \notin Executing \cup {"Committed"}

-----------------------------------------------------------------------------
(* C12 *)

\* C12: a permit batch whose two arrays, of at most 50 items each, differ in
\* length goes from the checks on the lengths to ArrayLengthMismatch: no
\* signature is recovered, nothing is issued, the counter is as it was.
ArrayLengthMismatch ==
    (/\ msg.fn = "permitTransferBatchWithSignature"
     /\ WithinBound
     /\ Len(msg.permits) # Len(msg.transfers))
        => /\ pc \in {"psize", "Aborted"}
           /\ pc = "Aborted" => (result = "ArrayLengthMismatch" /\ NoEffect)

\* a batch of one permit and no transfer, well signed, was refused
ArrayLengthMismatchWitness ==
    /\ pc = "Aborted"
    /\ result = "ArrayLengthMismatch"
    /\ Len(msg.permits) = 1
    /\ Len(msg.transfers) = 0
    /\ msg.signature # Malformed

-----------------------------------------------------------------------------
(* C13 *)

\* the permit batch in flight has a pair that one of the two validations refuses
StructurallyInvalid ==
    \/ \E k \in DOMAIN msg.permits : _validatePermitData(msg.permits[k]) # "ok"
    \/ \E k \in DOMAIN msg.transfers : _validateTransferData(msg.transfers[k]) # "ok"

\* C13 (as claimed): a permit batch of matching lengths within the bound that
\* has a structurally invalid pair at some index never gets to the signature
\* recovery or beyond it, and ends with InvalidToken or PermitExpired, whatever
\* its signature is.
StructuralErrorsFirst ==
    (/\ msg.fn = "permitTransferBatchWithSignature"
     /\ WellSized(msg)
     /\ StructurallyInvalid)
        => /\ pc \in {"psize", "Aborted"}
           /\ pc = "Aborted" => result \in {"InvalidToken", "PermitExpired"}

\* C13 (what the code gives): a permit batch with a structurally invalid pair
\* never commits.
StructurallyInvalidNeverCommits ==
    (msg.fn = "permitTransferBatchWithSignature" /\ StructurallyInvalid)
        => pc # "Committed"

\* a batch with an expired pair, signed by the sponsor, was refused for its signature
StructuralErrorLate ==
    /\ pc = "Aborted"
    /\ result = "InvalidSignature"
    /\ msg.fn = "permitTransferBatchWithSignature"
    /\ StructurallyInvalid
    /\ msg.signature # Malformed

-----------------------------------------------------------------------------
(* C14 *)

AuthenticationErrors == {"InvalidSignature", "InvalidAuthority", "InvalidSpender"}

\* the submission in flight has advanced no counter, and has executed no
\* permit, no transfer and no call
Untouched ==
    /\ nonce = pre.nonce
    /\ balanceOf = pre.balanceOf
    /\ allowance = pre.allowance
    /\ nonces = pre.nonces
    /\ events = <<>>
    /\ i = 0

\* the step that raises an authentication error
AuthenticationRaised ==
    /\ pc # "Aborted"
    /\ pc' = "Aborted"
    /\ result' \in AuthenticationErrors

\* C14 (as claimed): when InvalidSignature, InvalidAuthority or InvalidSpender
\* is raised, the counter has not been advanced and no item has been executed,
\* on every entry point and at every index.
AuthenticationErrorsFirst == [][AuthenticationRaised => Untouched]_vars

\* C14 (what the code gives): the same, but for InvalidSpender in a permit batch.
AuthenticationErrorsFirstButSpender ==
    [][(/\ AuthenticationRaised
        /\ ~(msg.fn = "permitTransferBatchWithSignature" /\ result' = "InvalidSpender"))
            => Untouched]_vars

\* the second pair of a batch names another spender: InvalidSpender is raised
\* after the first pair was executed
SpenderCheckedLate ==
    /\ pc = "Aborted"
    /\ result = "InvalidSpender"
    /\ msg.fn = "permitTransferBatchWithSignature"
    /\ i = 1

-----------------------------------------------------------------------------
(* C15 *)

PermitEntryPoints == {"permitTransferWithSignature", "permitTransferBatchWithSignature"}

\* the positions at which pair i has passed its validations
Validated == {"permit", "inpermit", "transfer", "intransfer"}

\* C15: on both permit entry points and at every index, a pair that has passed
\* its validations has a deadline not before the current time (the current time
\* itself included), and a pair refused with PermitExpired has a deadline
\* before the current time.
DeadlineEdge ==
    msg.fn \in PermitEntryPoints
        => /\ pc \in Validated => msg.permits[i + 1].deadline >= BlockTimestamp
           /\ (pc = "Aborted" /\ result = "PermitExpired")
                  => msg.permits[i + 1].deadline < BlockTimestamp

\* the second pair of a batch, its deadline the current time, has passed its validations
DeadlineEdgeWitness ==
    /\ pc = "permit"
    /\ msg.fn = "permitTransferBatchWithSignature"
    /\ i = 1
    /\ msg.permits[2].deadline = BlockTimestamp

\* a single permit, its deadline the current time, has passed its validations
DeadlineEdgeWitnessSingle ==
    /\ pc = "sverify"
    /\ msg.permits[1].deadline = BlockTimestamp

\* the second pair of a batch, one unit past its deadline, was refused
DeadlineEdgeWitnessExpired ==
    /\ pc = "Aborted"
    /\ result = "PermitExpired"
    /\ msg.fn = "permitTransferBatchWithSignature"
    /\ i = 1
    /\ msg.permits[2].deadline = BlockTimestamp - 1

\* a single permit, one unit past its deadline, was refused
DeadlineEdgeWitnessExpiredSingle ==
    /\ pc = "Aborted"
    /\ result = "PermitExpired"
    /\ msg.fn = "permitTransferWithSignature"
    /\ msg.permits[1].deadline = BlockTimestamp - 1

-----------------------------------------------------------------------------
(* C16 *)

\* C16: the step that executes the permit of pair i on a token.  If the
\* permit call succeeds the allowance becomes the permitted value, whatever
\* it was, and the transfer follows.  If it fails and the allowance is at least
\* the permitted value, the transfer follows with the allowance as it is.  If
\* it fails and the allowance is less, the submission ends with PermitFailed.
PermitFallback ==
    [][(pc = "permit" /\ msg.permits[i + 1].token \in Tokens)
          => LET p == msg.permits[i + 1]
             IN  IF PermitOk(p)
                   THEN /\ pc' = "transfer"
                        /\ allowance'[p.token] = p.value
                   ELSE IF allowance[p.token] >= p.value
                   THEN /\ pc' = "transfer"
                        /\ allowance' = allowance
                        /\ nonces' = nonces
                   ELSE /\ pc' = "Aborted"
                        /\ result' = "PermitFailed"
                        /\ nonce' = pre.nonce
                        /\ allowance' = pre.allowance
                        /\ balanceOf' = pre.balanceOf]_vars

\* a batch whose permit was signed by somebody else than the owner has
\* committed on the allowance that was there
PermitFallbackWitness ==
    /\ pc = "Committed"
    /\ msg.fn = "permitTransferBatchWithSignature"
    /\ Len(msg.permits) = 1
    /\ msg.permits[1].vrs.signer = "Nobody"
    /\ balanceOf["TokA"]["Rcpt"] = pre.balanceOf["TokA"]["Rcpt"] + 1

\* a permit failed and the allowance was not there: the batch is refused,
\* what its first pair did is undone
PermitFallbackWitnessFailed ==
    /\ pc = "Aborted"
    /\ result = "PermitFailed"
    /\ msg.fn = "permitTransferBatchWithSignature"
    /\ i = 1

\* the permit call succeeded on a token on which the owner had allowed nothing
PermitFallbackWitnessGranted ==
    /\ pc = "transfer"
    /\ pre.allowance[msg.permits[i + 1].token] = 0
    /\ allowance[msg.permits[i + 1].token] = 1

-----------------------------------------------------------------------------
(* C17 *)

\* what the first k transfers of the batch in flight move of a token to or from a holder
RECURSIVE Moved(_, _, _)
Moved(token, holder, k) ==
    IF k = 0 THEN 0
    ELSE Moved(token, holder, k - 1)
            + (IF msg.transfers[k].token # token THEN 0
               ELSE (IF msg.transfers[k].to = holder THEN msg.transfers[k].amount ELSE 0)
                      - (IF msg.permits[k].owner = holder THEN msg.transfers[k].amount ELSE 0))

WellBehavedTokens == \A k \in DOMAIN msg.transfers : msg.transfers[k].token \in Tokens

\* C17: a permit batch of n pairs on well-behaved tokens that has committed at
\* counter value c.  The counter is c + 1; every balance has changed by what
\* the pairs move to and from its holder; the log is the n TokenSaved events of
\* the pairs, in their order, and then BatchExecuted(c, n, sponsor); and the
\* signature that was verified is the owner's over the batch and c.
CommitEffects ==
    (/\ pc = "Committed"
     /\ msg.fn = "permitTransferBatchWithSignature"
     /\ WellBehavedTokens)
        => LET n == Len(msg.permits)
           IN  /\ nonce = pre.nonce + 1
               /\ \A token \in Tokens, holder \in TokenHolders :
                      balanceOf[token][holder]
                          = pre.balanceOf[token][holder] + Moved(token, holder, n)
               /\ Len(events) = n + 1
               /\ \A k \in 1..n :
                      events[k] = <<"TokenSaved", msg.transfers[k].token, msg.permits[k].owner,
                                    msg.transfers[k].to, msg.transfers[k].amount>>
               /\ events[n + 1] = <<"BatchExecuted", pre.nonce, n, "Sponsor">>
               /\ n > 0 => SignedAt(msg, pre.nonce)

\* a batch of two pairs has committed at counter value 1
CommitEffectsWitness ==
    /\ pc = "Committed"
    /\ msg.fn = "permitTransferBatchWithSignature"
    /\ Len(msg.permits) = 2
    /\ WellBehavedTokens
    /\ pre.nonce = 1

-----------------------------------------------------------------------------
(* C18 *)

CallEntryPoints == {"executeSelf", "execute"}

\* the positions from the first call of the batch on
Issuing == {"call", "incall", "inrefund", "Committed"}

\* C18: a call batch submitted with less value than its calls need in total
\* never gets to its first call, and where it is refused with InsufficientETH
\* no call has been issued; a call batch submitted with at least that value is
\* not refused with InsufficientETH; and InsufficientETH is given for nothing else.
InsufficientETH ==
    msg.fn \in CallEntryPoints
        => /\ msg.value < totalValueNeeded(msg.calls)
                => /\ pc \notin Issuing
                   /\ pc = "value" => (i = 0 /\ events = <<>>)
           /\ msg.value >= totalValueNeeded(msg.calls) => result # "InsufficientETH"
           /\ result = "InsufficientETH" => (pc = "Aborted" /\ NoEffect)

\* a batch that needs 2 was submitted with 1, well signed, and refused
InsufficientETHWitness ==
    /\ pc = "Aborted"
    /\ result = "InsufficientETH"
    /\ msg.fn = "execute"
    /\ msg.value = 1
    /\ totalValueNeeded(msg.calls) = 2

\* a batch submitted with just the value it needs is at its first call
InsufficientETHWitnessExact ==
    /\ pc = "call"
    /\ i = 0
    /\ msg.value = totalValueNeeded(msg.calls)
    /\ msg.value > 0

-----------------------------------------------------------------------------
(* C19 *)

\* C19: while a call batch is at its calls, the calls 0..i-1 have been issued
\* in this order and have succeeded, each leaving its CallExecuted event, and
\* no other call has; a step goes on to call i + 1 only when call i has
\* succeeded; and the step that raises CallFailed does so for call i, the first
\* that did not succeed, and ends the submission.
FirstFailure ==
    [][(msg.fn \in CallEntryPoints /\ pc \in {"call", "incall"})
          => /\ i <= Len(msg.calls)
             /\ events = [k \in 1..i |-> CallExecuted(msg.calls[k])]
             /\ i' \in {i, i + 1}
             /\ i' = i + 1 => events' = Append(events, CallExecuted(msg.calls[i + 1]))
             /\ result' = "CallFailed" => (i < Len(msg.calls) /\ i' = i /\ pc' = "Aborted")
             /\ pc' = "Aborted" => result' = "CallFailed"]_vars

\* the first call of a batch of two did not succeed: the second one was not issued
FirstFailureWitness ==
    /\ pc = "Aborted"
    /\ result = "CallFailed"
    /\ i = 0
    /\ Len(msg.calls) = 2

\* the second call of a batch of two did not succeed, after the first one had
FirstFailureWitnessSecond ==
    /\ pc = "Aborted"
    /\ result = "CallFailed"
    /\ i = 1
    /\ Len(msg.calls) = 2

-----------------------------------------------------------------------------
(* C20 *)

\* the single transfer in flight repeats a triple that was accepted before
ReplayedTriple ==
    /\ msg.fn = "permitTransferWithSignature"
    /\ \E k \in pre.accepted : Key(k) = Key(msg)

\* C20 (as claimed): a (permitData, transferData, signature) triple that
\* permitTransferWithSignature has accepted is refused with InvalidSignature
\* whenever it is submitted again.
SingleUseTriple ==
    (Terminal /\ ReplayedTriple) => (pc = "Aborted" /\ result = "InvalidSignature")

\* C20 (what the code gives): as long as no batch has advanced the counter in
\* between, the triple submitted again is not refused for its signature.
TripleVerifiesAgain ==
    (/\ Terminal
     /\ msg.fn = "permitTransferWithSignature"
     /\ \E k \in pre.accepted : Key(k) = Key(msg) /\ k.at = pre.nonce)
        => result # "InvalidSignature"

\* the triple submitted again has committed a second transfer
TripleReplayed ==
    /\ pc = "Committed"
    /\ ReplayedTriple
    /\ balanceOf["TokA"]["Rcpt"] = 2

-----------------------------------------------------------------------------
(* C21 *)

\* the permit batches whose arrays are of one length, short enough to be
\* compared with the batch in flight
ShortBatches == { b \in PermitBatches : Len(b[1]) = Len(b[2]) /\ Len(b[1]) <= MaxLen }

ShortCallBatches == { calls \in CallBatches : Len(calls) <= MaxLen }

\* C21 (as claimed), call batches: no other batch and no other counter value
\* gives the digest the batch at the signature check is verified against.
EncoderSensitivityCalls ==
    (pc = "verify" /\ msg.fn = "execute")
        => \A calls \in ShortCallBatches, n \in 0..MaxNonce :
              CallDigest(n, calls) = CallDigest(nonce, msg.calls)
                  => (calls = msg.calls /\ n = nonce)

\* C21 (as claimed), permit batches: likewise for the hash chain.
EncoderSensitivityPermits ==
    (pc = "pverify" /\ Len(msg.permits) <= MaxLen)
        => \A b \in ShortBatches, n \in 0..MaxNonce :
              BatchDigest(n, b[1], b[2]) = BatchDigest(nonce, msg.permits, msg.transfers)
                  => (b = <<msg.permits, msg.transfers>> /\ n = nonce)

\* C21 (as claimed): the digest is an injective function of (batch, counter),
\* for call batches and for permit batches.
EncoderSensitivity == EncoderSensitivityCalls /\ EncoderSensitivityPermits

\* a permit without the (v, r, s) of the token's permit
Unsigned(p) == [p EXCEPT !.vrs = Vrs("Zero", 0)]

\* C21 (what the code gives): two permit batches and counter values with one
\* digest have the same number of pairs, the same counter value and, pair by
\* pair, the same fields but for the (v, r, s) of the permits.
EncoderSensitivityButVrs ==
    (pc = "pverify" /\ Len(msg.permits) <= MaxLen)
        => \A b \in ShortBatches, n \in 0..MaxNonce :
              BatchDigest(n, b[1], b[2]) = BatchDigest(nonce, msg.permits, msg.transfers)
                  => /\ n = nonce
                     /\ Len(b[1]) = Len(msg.permits)
                     /\ b[2] = msg.transfers
                     /\ \A k \in DOMAIN b[1] : Unsigned(b[1][k]) = Unsigned(msg.permits[k])

\* a batch of one call has passed the signature check with the account's
\* signature over a batch of two other calls
EncoderCollision ==
    /\ pc = "batch"
    /\ msg.fn = "execute"
    /\ msg.calls = <<PayloadCall>>
    /\ msg.signature = Sign("Acct", CallDigest(nonce, <<[PayloadCall EXCEPT !.data = <<>>],
                                                        [PayloadCall EXCEPT !.data = <<>>]>>))

-----------------------------------------------------------------------------
(* C22 *)

\* checkDelegation has ended
Checked == pc = "Returned" /\ msg.fn = "checkDelegation"

\* the code is the marker followed by the bytes of one address
WellFormedDelegation(bytes) ==
    startsWith(bytes, Marker) /\ Len(bytes) = Len(Marker) + AddressLength

NoDelegation == result = "Returned" /\ ret = <<0>>

DelegationTo(a) == result = "Returned" /\ ret = <<1>> \o a

\* C22 (as claimed): for no code checkDelegation reports no delegation; for
\* the marker followed by the 20 bytes of an address it reports the delegation
\* to that address; for every other code it throws.
DelegationParsing ==
    Checked
        => LET bytes == msg.bytecode.bytes
           IN  IF bytes = <<>> THEN NoDelegation
               ELSE IF WellFormedDelegation(bytes)
                 THEN DelegationTo(SubSeq(bytes, Len(Marker) + 1, Len(bytes)))
               ELSE result = "Error"

\* C22 (what the code gives): the same for every code that does not start with
\* the marker, and for the marker followed by the 20 bytes of an address.
DelegationParsingButMarker ==
    (Checked /\ (startsWith(msg.bytecode.bytes, Marker)
                    => WellFormedDelegation(msg.bytecode.bytes)))
        => LET bytes == msg.bytecode.bytes
           IN  IF bytes = <<>> THEN NoDelegation
               ELSE IF WellFormedDelegation(bytes)
                 THEN DelegationTo(SubSeq(bytes, Len(Marker) + 1, Len(bytes)))
               ELSE result = "Error"

\* the delegation of a delegated account was reported
DelegationParsingWitness ==
    /\ Checked
    /\ WellFormedDelegation(msg.bytecode.bytes)
    /\ DelegationTo([k \in 1..AddressLength |-> 255])

-----------------------------------------------------------------------------
(* C23 *)

\* C23 (as claimed): for a code that starts with the marker and does not go on
\* with exactly 20 bytes checkDelegation throws, and the address of a
\* delegation it reports is 20 bytes long.
MalformedMarker ==
    Checked
        => /\ (/\ startsWith(msg.bytecode.bytes, Marker)
               /\ ~WellFormedDelegation(msg.bytecode.bytes)) => result = "Error"
           /\ (result = "Returned" /\ ret[1] = 1) => Len(Tail(ret)) = AddressLength

\* for the marker alone a delegation to an address of no bytes was reported
MalformedMarkerAccepted ==
    /\ Checked
    /\ msg.bytecode = Hex(Marker)
    /\ DelegationTo(<<>>)

-----------------------------------------------------------------------------
(* C24 *)

\* C24: where getContractInfo has returned, what it returned is the counter
\* and 50, and the counter, the guard, the balances, the allowances and the
\* record of accepted submissions are what they were before the call; so what
\* a submission that follows meets is what it would have met without the call.
GetContractInfoReadOnly ==
    (pc = "Returned" /\ msg.fn = "getContractInfo")
        => /\ ret = <<nonce, MAX_BATCH_SIZE>>
           /\ ret[2] = 50
           /\ Snapshot = pre
           /\ events = <<>>

\* getContractInfo has returned (1, 50) after a batch was committed
GetContractInfoWitness ==
    /\ pc = "Returned"
    /\ msg.fn = "getContractInfo"
    /\ ret = <<1, 50>>
    /\ accepted # {}

-----------------------------------------------------------------------------
(* C25 *)

Validating == {"size", "psize", "validate"}

Verifying == {"authority", "verify", "pverify", "sverify"}

InFlight == Validating \cup Verifying \cup Executing

\* the place of a position in Validating, Verifying, Executing, terminal
Rank(p) ==
    IF p \in Validating THEN 1
    ELSE IF p \in Verifying THEN 2
    ELSE IF p \in Executing THEN 3
    ELSE IF p \in {"Committed", "Aborted"} THEN 4
    ELSE 0

\* a step of a submission goes on in its phase, to the next phase or to
\* Aborted; Committed is entered from Executing only; a submission begins
\* with its first check; and from Committed and from Aborted nothing of the
\* submission goes on
PhaseOrder ==
    /\ pc \in InFlight =>
          /\ Rank(pc') >= Rank(pc)
          /\ pc' = "Aborted" \/ Rank(pc') <= Rank(pc) + 1
    /\ pc' = "Committed" => pc \in Executing
    /\ (pc \notin InFlight /\ pc' \in InFlight) =>
          (pc = "idle" /\ pc' \in {"size", "psize", "validate", "authority"})
    /\ Terminal => (pc' = "idle" /\ msg' = NoMsg)

\* C25: the submissions go through Validating, Verifying and Executing in this
\* order, end in Committed or in Aborted and go nowhere from there; and, every
\* external call returning, a submission in flight always gets to Committed or
\* to Aborted.
SubmissionStateMachine ==
    /\ [][PhaseOrder]_vars
    /\ (pc \in InFlight) ~> Terminal

\* a batch waits for the return of the second of its calls, into which the
\* callee has tried to enter the contract again
SubmissionInFlight ==
    /\ pc = "incall"
    /\ i = 1
    /\ reentry # <<>>

\* Aborted is entered from each of the three phases
AbortedFromValidating == pc = "Aborted" /\ result \in {"BatchTooLarge", "ArrayLengthMismatch"}

AbortedFromVerifying == pc = "Aborted" /\ result \in {"InvalidSignature", "InvalidAuthority"}

AbortedFromExecuting == pc = "Aborted" /\ result \in ExecutionErrors

-----------------------------------------------------------------------------
(* C26 *)

\* the batch in flight is one of the length the client's loop is unrolled to
Short == Len(msg.calls) <= MaxLen /\ Len(msg.permits) <= MaxLen

\* the signature the client makes for the batch in flight when it has read
\* the counter as n
ClientSignature(n) ==
    IF msg.fn = "execute"
      THEN Sign("Acct", executeBatchHash(n, msg.calls))
      ELSE createBatchSignature("Owner", msg.permits, msg.transfers, n)

\* for the batch at the signature check and every counter value, the client
\* signs the value the contract recovers against
SameDigest ==
    /\ (pc = "verify" /\ Short)
          => \A n \in 0..MaxNonce : executeBatchHash(n, msg.calls) = CallDigest(n, msg.calls)
    /\ (pc = "pverify" /\ Short)
          => \A n \in 0..MaxNonce :
                createBatchSignature("Owner", msg.permits, msg.transfers, n)
                    = Sign("Owner", BatchDigest(n, msg.permits, msg.transfers))

\* the batch in flight carries the client's signature made at counter value
\* n, and has got to the signature check
ClientSigned(n) ==
    /\ msg.fn \in SponsoredBatch
    /\ Short
    /\ WellSized(msg)
    /\ \A k \in DOMAIN msg.permits : msg.permits[k].owner = "Owner"
    /\ msg.signature = ClientSignature(n)

\* a batch with the client's signature made at counter value n passes the
\* signature check if and only if the counter still is n
AcceptedIffUnchanged ==
    \A n \in 0..MaxNonce :
        ClientSigned(n)
            => /\ pc \in Executing \cup {"Committed"} => n = pre.nonce
               /\ (pc = "Aborted" /\ n = pre.nonce) => result # "InvalidSignature"

\* C26 (as claimed): client and contract compute one digest, and the client's
\* signature is accepted if and only if the counter is the one the client read.
ClientDigest == SameDigest /\ AcceptedIffUnchanged

\* C26 (what the code gives): the same, the second half for the batches that
\* are not empty.
ClientDigestNonEmpty ==
    /\ SameDigest
    /\ NonEmpty(msg) => AcceptedIffUnchanged

\* a batch of two pairs with the client's signature has passed the signature check
ClientDigestWitness ==
    /\ pc = "advance"
    /\ Len(msg.permits) = 2
    /\ msg.signature = createBatchSignature("Owner", msg.permits, msg.transfers, 1)

\* an empty permit batch with the client's signature made at counter value 0
\* has passed the signature check at counter value 1
ClientDigestStale ==
    /\ pc = "advance"
    /\ nonce = 1
    /\ msg.permits = <<>>
    /\ msg.signature = createBatchSignature("Owner", <<>>, <<>>, 0)

-----------------------------------------------------------------------------
(* C27 *)

\* the per-item events of the first k items of the batch in flight, in their order
ItemEvents(k) ==
    IF msg.fn \in CallEntryPoints
      THEN [j \in 1..k |-> CallExecuted(msg.calls[j])]
      ELSE [j \in 1..k |-> TokenSaved(msg.permits[j], msg.transfers[j])]

ItemCount == IF msg.fn \in CallEntryPoints THEN Len(msg.calls) ELSE Len(msg.permits)

\* while a batch is at its items the log holds the events of the items before
\* item i, in their order; in a committed batch it holds the events of all
\* items in their order and then the one BatchExecuted
EventsInOrder ==
    /\ (msg.fn \in BatchEntryPoints /\ pc \in {"call", "incall", "item", "permit", "inpermit",
                                               "transfer", "intransfer"})
          => events = ItemEvents(i)
    /\ (msg.fn \in BatchEntryPoints /\ pc = "Committed")
          => /\ i = ItemCount
             /\ events = Append(ItemEvents(ItemCount), BatchExecuted(pre.nonce, ItemCount))

\* the items are gone through one by one from the first: from the permit of
\* pair i the next position is its transfer, from its transfer the permit
\* checks of pair i + 1, and i goes up by one exactly there
ItemOrder ==
    /\ (pc = "item" /\ pc' = "permit") => (i' = i /\ i < Len(msg.permits))
    /\ pc \in {"permit", "inpermit"} => (pc' \in {"inpermit", "transfer", "Aborted"} /\ i' = i)
    /\ (pc \in {"transfer", "intransfer"} /\ msg.fn = "permitTransferBatchWithSignature")
          => /\ pc' \in {"intransfer", "item", "Aborted"}
             /\ i' = IF pc' = "item" THEN i + 1 ELSE i
    /\ pc' = "permit" => pc \in {"item", "sverify"}
    /\ pc' = "transfer" => pc \in {"permit", "inpermit"}
    /\ (pc \in {"call", "incall"} /\ pc' \in {"call", "incall"}) => i' \in {i, i + 1}
    /\ (pc' \in {"call", "item"} /\ i' # i) => (i' = i + 1 \/ i' = 0)

\* C27: in both kinds of batch the items are processed in the order of their
\* indexes, in a permit batch the permit of a pair before its transfer and
\* that before the permit of the next pair, and the events are emitted in the
\* order of the items, the batch event after them all.
StrictItemOrder == []EventsInOrder /\ [][ItemOrder]_vars

\* the permit of the second pair of a batch is about to be made; the first
\* pair has left its event
StrictItemOrderWitness ==
    /\ pc = "permit"
    /\ i = 1
    /\ Len(events) = 1
    /\ msg.fn = "permitTransferBatchWithSignature"

-----------------------------------------------------------------------------
(* C28 *)

Excess == msg.value - totalValueNeeded(msg.calls)

\* where the refund is under way all calls have been made and the batch
\* event is out, and there is an excess to refund; a committed batch has
\* advanced the counter, and its invoker has got the excess back or, the
\* refund having failed, has not
RefundState ==
    msg.fn \in CallEntryPoints
        => /\ pc = "inrefund"
                => /\ Excess > 0
                   /\ i = Len(msg.calls)
                   /\ events = Append(ItemEvents(i), BatchExecuted(pre.nonce, i))
                   /\ eth[msg.sender] = pre.eth[msg.sender] - msg.value + Excess
           /\ (pc = "Committed" /\ msg.sender # This)
                => /\ nonce = pre.nonce + 1
                   /\ eth[msg.sender] \in {pre.eth[msg.sender] - msg.value + Excess,
                                           pre.eth[msg.sender] - msg.value}
                   /\ ~IsHostile(msg.sender)
                         => eth[msg.sender] = pre.eth[msg.sender] - msg.value + Excess

\* whatever the receiver of the refund does, the batch commits next, with the
\* counter and the log as they are
RefundStep ==
    pc = "inrefund" =>
        /\ pc' \in {"inrefund", "Committed"}
        /\ nonce' = nonce
        /\ events' = events
        /\ balanceOf' = balanceOf

\* C28: the excess of the value over the sum of the calls is sent back to the
\* invoker after the calls and after the batch event; a refund that fails is
\* passed over, the batch commits and the counter stays advanced; and with no
\* excess no refund is made.
RefundOfExcess == []RefundState /\ [][RefundStep]_vars

\* a batch has committed though the refund of its excess failed
RefundFailedWitness ==
    /\ pc = "Committed"
    /\ msg.fn = "execute"
    /\ msg.sender = "Evil"
    /\ Excess = 1
    /\ eth["Evil"] = pre.eth["Evil"] - 1
    /\ nonce = pre.nonce + 1

-----------------------------------------------------------------------------
(* C29 *)

\* C29: a self-executed batch that has committed at counter value N has
\* advanced the counter to N + 1 and its batch event carries N; and a
\* sponsored call batch of at most 50 calls whose signature was made for a
\* counter value the counter has since left, by whichever kind of batch, is
\* refused with InvalidSignature.
SharedCounter ==
    /\ (pc = "Committed" /\ msg.fn = "executeSelf")
          => /\ nonce = pre.nonce + 1
             /\ events[Len(events)] = <<"BatchExecuted", pre.nonce, Len(msg.calls), "Acct">>
    /\ (/\ Terminal
        /\ msg.fn = "execute"
        /\ WithinBound
        /\ \E n \in 0..MaxNonce : n < pre.nonce /\ SignedAt(msg, n))
          => (pc = "Aborted" /\ result = "InvalidSignature")

\* a sponsored batch signed for counter value 0 is refused at counter value 1,
\* the account having sent its own unit to the recipient in between
SharedCounterWitness ==
    /\ pc = "Aborted"
    /\ result = "InvalidSignature"
    /\ msg.fn = "execute"
    /\ SignedAt(msg, 0)
    /\ pre.nonce = 1
    /\ eth["Acct"] = 0
    /\ eth["Rcpt"] = 1
    /\ eth["Sponsor"] = 2

\* a self-executed batch has committed at counter value 1
SharedCounterWitnessSelf ==
    /\ pc = "Committed"
    /\ msg.fn = "executeSelf"
    /\ pre.nonce = 1
    /\ Len(msg.calls) = 2

-----------------------------------------------------------------------------
(* C30 *)

\* the owner of the batch of submission k: the owner of its first permit, and
\* for a batch without permits the party whose signatures the counter protects
BatchOwner(k) == IF Len(k.permits) > 0 THEN k.permits[1].owner ELSE Authorizer(k)

\* the signature of submission k is the batch owner's, over the digest at n
BatchOwnerSigned(k, n) ==
    /\ \A j \in 1..Len(k.permits) : k.permits[j].owner = BatchOwner(k)
    /\ recover(BatchDigest(n, k.permits, k.transfers), k.signature) = BatchOwner(k)

\* the counter of PermitSaver was moved by the submission that has ended
CounterMoved == contract = "PermitSaver" /\ Terminal /\ nonce # pre.nonce

\* C30 (as claimed): on PermitSaver the counter is moved only by a batch
\* submission, of any length, that commits and carries the batch owner's
\* signature over the counter value the submission started from.
OnlySignerAdvances ==
    CounterMoved
        => /\ pc = "Committed"
           /\ msg.fn = "permitTransferBatchWithSignature"
           /\ nonce = pre.nonce + 1
           /\ BatchOwnerSigned(msg, pre.nonce)

\* C30 (what holds): the same, for batches of at least one pair; a batch
\* without pairs moves the counter too, whatever well-formed signature it has.
OnlySignerAdvancesNonEmpty ==
    CounterMoved
        => /\ pc = "Committed"
           /\ msg.fn = "permitTransferBatchWithSignature"
           /\ nonce = pre.nonce + 1
           /\ Len(msg.permits) > 0 => BatchOwnerSigned(msg, pre.nonce)

\* a batch without pairs, signed by the sponsor, has moved the counter
AdvancedWithoutOwner ==
    /\ CounterMoved
    /\ pc = "Committed"
    /\ Len(msg.permits) = 0
    /\ msg.signature.signer = "Sponsor"
    /\ nonce = pre.nonce + 1

\* a batch of two pairs with the owner's signature has moved the counter
AdvancedByOwner ==
    /\ CounterMoved
    /\ Len(msg.permits) = 2
    /\ BatchOwnerSigned(msg, pre.nonce)

-----------------------------------------------------------------------------
(* C31 *)

\* pair k of the submission in flight keeps within its permit
WithinPermit(k) ==
    /\ msg.transfers[k].token = msg.permits[k].token
    /\ msg.transfers[k].amount <= msg.permits[k].value

\* C31: in every committed permit submission, single or batch, each transfer
\* is of the token of the paired permit and of no more than the permit's value.
TransfersWithinPermits ==
    (pc = "Committed" /\ msg.fn \in PermitEntryPoints)
        => \A k \in 1..Len(msg.permits) : WithinPermit(k)

\* a committed pair has moved a unit of TokA under a permit for TokB
TransferOfOtherToken ==
    /\ pc = "Committed"
    /\ msg.fn \in PermitEntryPoints
    /\ Len(msg.permits) = 1
    /\ msg.permits[1].token = "TokB"
    /\ msg.transfers[1].token = "TokA"
    /\ balanceOf["TokA"]["Rcpt"] = pre.balanceOf["TokA"]["Rcpt"] + 1

\* a committed pair has moved two units of TokA under a permit for one
TransferBeyondPermit ==
    /\ pc = "Committed"
    /\ msg.fn \in PermitEntryPoints
    /\ Len(msg.permits) = 1
    /\ msg.permits[1].token = "TokA"
    /\ msg.permits[1].value = 1
    /\ msg.transfers[1].token = "TokA"
    /\ balanceOf["TokA"]["Rcpt"] = pre.balanceOf["TokA"]["Rcpt"] + 2

-----------------------------------------------------------------------------
(* C32 *)

\* the addresses an instance of one of the contracts may be at
Accounts == {"Acct", "PS", "Sponsor", "Evil", "Rcpt", "Owner", "Owner2"}

\* the checks of execute(calls, signature), made by the instance at address
\* `this` with its counter at n, let the batch of submission k through
executeAcceptedAt(this, n, k) ==
    /\ Len(k.calls) <= MAX_BATCH_SIZE
    /\ k.signature # Malformed
    /\ recover(CallDigest(n, k.calls), k.signature) = this

\* the checks the permit entry points make on the arguments alone, made by
\* the instance at address `this` with its counter at n, let submission k through
permitAcceptedAt(this, n, k) ==
    IF k.fn = "permitTransferWithSignature"
      THEN /\ _validatePermitData(k.permits[1]) = "ok"
           /\ _validateTransferData(k.transfers[1]) = "ok"
           /\ k.permits[1].spender = this
           /\ _verifySignature(n, k.permits[1], k.transfers[1], k.signature) = "ok"
      ELSE /\ Len(k.permits) <= MAX_BATCH_SIZE
           /\ Len(k.transfers) <= MAX_BATCH_SIZE
           /\ Len(k.permits) = Len(k.transfers)
           /\ _verifyBatchSignature(n, k.permits, k.transfers, k.signature) = "ok"
           /\ \A j \in 1..Len(k.permits) :
                 /\ _validatePermitData(k.permits[j]) = "ok"
                 /\ _validateTransferData(k.transfers[j]) = "ok"
                 /\ k.permits[j].spender = this

\* an instance at another address than this one's, at some counter value,
\* lets the submission in flight through
AcceptedElsewhere ==
    \E this \in Accounts \ {This}, n \in 0..MaxNonce :
        IF msg.fn = "execute" THEN executeAcceptedAt(this, n, msg)
        ELSE permitAcceptedAt(this, n, msg)

\* C32: a submission of at least one item that an instance at another address
\* lets through, at whatever counter value, does not commit here: a call batch
\* ends with InvalidSignature, a single permit transfer with InvalidSpender, a
\* permit batch with InvalidSignature or InvalidSpender.
BoundToInstance ==
    (/\ Terminal
     /\ msg.fn \in SponsoredBatch \cup PermitEntryPoints
     /\ NonEmpty(msg)
     /\ AcceptedElsewhere)
        => /\ pc = "Aborted"
           /\ result \in CASE msg.fn = "execute" -> {"InvalidSignature"}
                           [] msg.fn = "permitTransferWithSignature" -> {"InvalidSpender"}
                           [] OTHER -> {"InvalidSignature", "InvalidSpender"}

\* a permit batch made out for another spender, with the owner's signature
\* over the counter value here, was refused for its spender
BoundElsewherePermits ==
    /\ pc = "Aborted"
    /\ result = "InvalidSpender"
    /\ msg.fn = "permitTransferBatchWithSignature"
    /\ permitAcceptedAt("Evil", pre.nonce, msg)

\* a call batch that the instance at the sponsor's account lets through was
\* refused here
BoundElsewhereCalls ==
    /\ pc = "Aborted"
    /\ result = "InvalidSignature"
    /\ msg.fn = "execute"
    /\ Len(msg.calls) > 0
    /\ executeAcceptedAt("Sponsor", pre.nonce, msg)

-----------------------------------------------------------------------------
(* The web client and the contract instances are apart *)

\* in the behaviours of the web client no contract is called, and in those of
\* a contract instance no hook operation is
Apart ==
    /\ contract = "none" => pc = "idle"
    /\ contract # "none" => (\A s \in Slots : ops[s] = NoOp) /\ (\A h \in Hooks : ~isLoading[h])

-----------------------------------------------------------------------------
(* C33 *)

\* the operation in slot s is a revocation that has looked at the account's code
Looked(s) ==
    /\ ops[s].op = "revokeDelegation"
    /\ ops[s].service
    /\ ops[s].at # "check"

\* the code it saw shows no delegation
SawNoDelegation(s) ==
    /\ checkDelegation(ops[s].bytecode).error = "none"
    /\ ~checkDelegation(ops[s].bytecode).hasDelegation

\* C33: a revocation that finds no delegation in the account's code ends with
\* 'No delegation found to revoke', nothing signed and nothing sent; what a
\* revocation signs is one authorization to the zero address with the sponsor
\* as executor, what it sends is one transaction of the sponsor to the account
\* carrying it, and both only after a delegation was found.
RevokePrecondition ==
    \A s \in Slots :
        /\ (Looked(s) /\ SawNoDelegation(s))
              => /\ ops[s].at = "done"
                 /\ ops[s].status = <<"error", "No delegation found to revoke">>
                 /\ ops[s].signed = <<>>
                 /\ ops[s].sent = <<>>
        /\ (ops[s].op = "revokeDelegation" /\ ops[s].signed # <<>>)
              => /\ Looked(s)
                 /\ checkDelegation(ops[s].bytecode).hasDelegation
                 /\ ops[s].signed = <<<<"authorization", "Zero", "Sponsor">>>>
        /\ (ops[s].op = "revokeDelegation" /\ ops[s].sent # <<>>)
              => /\ ops[s].signed # <<>>
                 /\ ops[s].sent = <<<<"Sponsor", "Owner", "authorization">>>>

\* a revocation has ended at an account whose code is empty
RevokeRefused ==
    \E s \in Slots :
        /\ Looked(s)
        /\ ops[s].bytecode = [defined |-> TRUE, bytes |-> <<>>]
        /\ ops[s].status = <<"error", "No delegation found to revoke">>

\* a revocation has been sent by the sponsor
RevokeSent ==
    \E s \in Slots :
        /\ Looked(s)
        /\ ops[s].at = "done"
        /\ ops[s].sent # <<>>
        /\ ops[s].status[1] = "success"

-----------------------------------------------------------------------------
(* C34 *)

\* every entry of the list has a token, a recipient and a positive amount
WellFormedList(list) ==
    \A k \in 1..Len(list) :
        /\ validateAddress(list[k].token)
        /\ validateAddress(list[k].recipient)
        /\ list[k].amount > 0

\* the operation in slot s has got no further than its validations
Turned(s) == ops[s].at = "done" /\ ~ops[s].service

\* C34: permitTransferBatch called with an empty list or with more entries
\* than the contract's MAX_BATCH_SIZE ends with an error status, no service
\* made, nothing signed and nothing sent; called with 1 to MAX_BATCH_SIZE
\* well-formed entries it is turned away for a malformed key only; and the
\* arrays it builds are of one length, between 1 and MAX_BATCH_SIZE, with one
\* owner and the contract as spender in every permit.
ClientBatchCap ==
    \A s \in Slots :
        ops[s].op = "permitTransferBatch"
            => /\ (Len(ops[s].list) = 0 \/ Len(ops[s].list) > MAX_BATCH_SIZE)
                     => /\ Turned(s)
                        /\ ops[s].status[1] = "error"
                        /\ ops[s].permitDataArray = <<>>
                        /\ ops[s].signed = <<>>
                        /\ ops[s].sent = <<>>
               /\ (/\ Turned(s)
                   /\ Len(ops[s].list) \in 1..MAX_BATCH_SIZE
                   /\ WellFormedList(ops[s].list))
                     => ops[s].status[2] \in {"Invalid drained private key format",
                                              "Invalid sponsor private key format"}
               /\ (ops[s].permitDataArray # <<>> \/ ops[s].signed # <<>> \/ ops[s].sent # <<>>)
                     => /\ Len(ops[s].permitDataArray) = Len(ops[s].transferDataArray)
                        /\ Len(ops[s].permitDataArray) \in 1..MAX_BATCH_SIZE
                        /\ \A k \in 1..Len(ops[s].permitDataArray) :
                              /\ ops[s].permitDataArray[k].owner = ops[s].permitDataArray[1].owner
                              /\ ops[s].permitDataArray[k].spender = "PS"

\* a list of MAX_BATCH_SIZE entries has been sent as a batch
ClientBatchSent ==
    \E s \in Slots :
        /\ ops[s].op = "permitTransferBatch"
        /\ Len(ops[s].list) = MAX_BATCH_SIZE
        /\ Len(ops[s].permitDataArray) = MAX_BATCH_SIZE
        /\ ops[s].sent # <<>>

\* a list of MAX_BATCH_SIZE + 1 entries has been turned away
ClientBatchTooLarge ==
    \E s \in Slots :
        /\ ops[s].op = "permitTransferBatch"
        /\ Len(ops[s].list) = MAX_BATCH_SIZE + 1
        /\ ops[s].status = <<"error", "Too many transfers (max 50)">>

\* an empty list has been turned away
ClientBatchEmpty ==
    \E s \in Slots :
        /\ ops[s].op = "permitTransferBatch"
        /\ ops[s].status = <<"error", "No transfers provided">>

-----------------------------------------------------------------------------
(* C35 *)

\* the operation in slot s has passed its validations and has not ended
Pending(o) == o.at \notin {"rest", "done"}

\* a step in which an operation passes its validations leaves its hook's
\* isLoading true, and one in which an operation ends leaves it false
LoadingSteps ==
    \A s \in Slots :
        /\ (~Pending(ops[s]) /\ Pending(ops'[s])) => isLoading'[HookOf(ops'[s].op)]
        /\ (Pending(ops[s]) /\ ~Pending(ops'[s])) => ~isLoading'[HookOf(ops[s].op)]

\* the hook's isLoading is true while an operation of the hook is in flight
LoadingWhilePending(hook) ==
    \A s \in Slots : (Pending(ops[s]) /\ HookOf(ops[s].op) = hook) => isLoading[hook]

\* C35 (as claimed): an operation that passes its validations sets its hook's
\* isLoading, the end of an operation clears it, and a hook's isLoading is
\* true whenever an operation of that hook is in flight.
LoadingFlag ==
    /\ [][LoadingSteps]_vars
    /\ []LoadingWhilePending("useDelegation")
    /\ []LoadingWhilePending("usePermit")

\* C35 (what holds): the same for the operations of useDelegation, which the
\* page lets start one at a time; of usePermit's only the two steps hold.
LoadingFlagUseDelegation ==
    /\ [][LoadingSteps]_vars
    /\ []LoadingWhilePending("useDelegation")

\* a batch transfer is in flight while usePermit's isLoading is false, another
\* batch transfer having ended with an error
LoadingFlagDropped ==
    \E s, t \in Slots :
        /\ ops[s].op = "permitTransferBatch"
        /\ Pending(ops[s])
        /\ ops[t].op = "permitTransferBatch"
        /\ ops[t].at = "done"
        /\ ops[t].service
        /\ ~isLoading["usePermit"]

\* an operation of useDelegation is in flight and the page's buttons are disabled
LoadingFlagSet ==
    \E s \in Slots :
        /\ ops[s].op = "revokeDelegation"
        /\ ops[s].at = "send"
        /\ Disabled

-----------------------------------------------------------------------------
(* C36 *)

\* the sum of the value fields as a number, whatever its size
RECURSIVE Sum(_)
Sum(calls) ==
    IF calls = <<>> THEN 0
    ELSE IF Len(calls) = 1 THEN calls[1].value
    ELSE Sum(SubSeq(calls, 1, Len(calls) \div 2))
           + Sum(SubSeq(calls, Len(calls) \div 2 + 1, Len(calls)))

\* C36: the total computed for a call batch is the sum of the value fields, or
\* the computation panics, which it does just when the sum is past the largest
\* unsigned integer; a batch is past the value check only with that sum as its
\* total and no more than msg.value, so a batch whose sum is past the largest
\* unsigned integer never reaches its calls and ends aborted with nothing done.
NoWraparound ==
    /\ \A calls \in CallBatches :
          totalValueNeeded(calls) = IF Sum(calls) > UintMax THEN Panic ELSE Sum(calls)
    /\ msg.fn \in CallEntryPoints
          => /\ pc \in Issuing
                   => /\ totalValueNeeded(msg.calls) = Sum(msg.calls)
                      /\ Sum(msg.calls) <= msg.value
             /\ Sum(msg.calls) > UintMax
                   => /\ pc \notin Issuing
                      /\ Terminal => (pc = "Aborted" /\ NoEffect)
             /\ result = "Panic" => (pc = "Aborted" /\ NoEffect /\ Sum(msg.calls) > UintMax)
    /\ (msg.fn = "calculateETHNeeded" /\ result = "Returned") => ret[1] \in 0..UintMax

\* a sponsored batch whose values sum to one more than the largest unsigned
\* integer, well signed and sent with no value, has ended in a panic
WraparoundRefused ==
    /\ pc = "Aborted"
    /\ result = "Panic"
    /\ msg.fn = "execute"
    /\ SignedAt(msg, pre.nonce)
    /\ msg.value = 0
    /\ Sum(msg.calls) = UintMax + 1

\* calculateETHNeeded has panicked
WraparoundRefusedView ==
    /\ pc = "Returned"
    /\ msg.fn = "calculateETHNeeded"
    /\ result = "Panic"

====
